---- MODULE Spec2Model ----
(***************************************************************************)
(* German-law-mcp: the tool-call shell (LawMcpShell, AdapterRegistry),     *)
(* the Germany adapter and the SQLite-backed three-tier search.            *)
(*                                                                         *)
(* Strings are sequences of one-character strings, so that trim() and      *)
(* toLowerCase() are computed and not assumed.  A JavaScript value is a    *)
(* record [t, s, n, b]: its typeof-like tag, its string, its number (in    *)
(* units of 1/Scale, so that fractional limits exist) and its boolean.     *)
(***************************************************************************)
EXTENDS Integers, Sequences, FiniteSets, TLC

VARIABLES
  registry,   \* AdapterRegistry.adapters: lower-cased code -> adapter
  store,      \* the SQLite corpus file behind german-law-db
  call,       \* the ToolCall last passed to handleToolCall
  result,     \* the ToolResult envelope it resolved to
  invoked,    \* the adapter operations that call invoked (at most one)
  thrown,     \* the exception that escaped the last public call, if any
  scripts,    \* what each ingestion script does when it is run
  env,        \* process.env.GERMAN_LAW_DB_PATH, "" when it is not set
  db,         \* the module variables of german-law-db (handle and caches)
  api,        \* the module variable of api/mcp and the files under /tmp
  requests    \* the asynchronous invocations in flight, each at an await

vars ==
  <<registry, store, call, result, invoked, thrown, scripts, env, db, api,
    requests>>

(***************************************************************************)
(* JavaScript values                                                       *)
(***************************************************************************)
Scale == 2

Undefined == [t |-> "undefined", s |-> <<>>, n |-> 0, b |-> FALSE]
Str(s)    == [t |-> "string",    s |-> s,    n |-> 0, b |-> FALSE]
Num(h)    == [t |-> "number",    s |-> <<>>, n |-> h, b |-> FALSE]
Whole(i)  == Num(i * Scale)
Bool(b)   == [t |-> "boolean",   s |-> <<>>, n |-> 0, b |-> b]
PosInf    == [t |-> "+Infinity", s |-> <<>>, n |-> 0, b |-> FALSE]
NegInf    == [t |-> "-Infinity", s |-> <<>>, n |-> 0, b |-> FALSE]
NaN       == [t |-> "NaN",       s |-> <<>>, n |-> 0, b |-> FALSE]

TypeOf(v) == IF v.t \in {"number", "+Infinity", "-Infinity", "NaN"}
             THEN "number" ELSE v.t

(***************************************************************************)
(* String.prototype.trim / toLowerCase over the model's alphabet           *)
(***************************************************************************)
UpperChars ==
  <<"A", "B", "C", "D", "E", "F", "G", "H", "I", "J", "K", "L", "M", "N",
    "O", "P", "Q", "R", "S", "T", "U", "V", "W", "X", "Y", "Z">>

LowerChars ==
  <<"a", "b", "c", "d", "e", "f", "g", "h", "i", "j", "k", "l", "m", "n",
    "o", "p", "q", "r", "s", "t", "u", "v", "w", "x", "y", "z">>

IsSpace(c) == c = " "

ToLowerChar(c) ==
  IF \E i \in DOMAIN UpperChars : UpperChars[i] = c
  THEN LowerChars[CHOOSE i \in DOMAIN UpperChars : UpperChars[i] = c]
  ELSE c

ToLowerCase(s) == [i \in DOMAIN s |-> ToLowerChar(s[i])]

RECURSIVE TrimStart(_)
TrimStart(s) ==
  IF s = <<>> THEN <<>>
  ELSE IF IsSpace(Head(s)) THEN TrimStart(Tail(s)) ELSE s

RECURSIVE TrimEnd(_)
TrimEnd(s) ==
  IF s = <<>> THEN <<>>
  ELSE IF IsSpace(s[Len(s)]) THEN TrimEnd(SubSeq(s, 1, Len(s) - 1)) ELSE s

Trim(s) == TrimEnd(TrimStart(s))

(***************************************************************************)
(* Errors.  A message is the template text followed by what was            *)
(* interpolated into it.                                                   *)
(***************************************************************************)
NoError == [type |-> "none", code |-> "none", message |-> <<>>]

ShellError(code, message) ==
  [type |-> "ShellError", code |-> code, message |-> message]

TypeError(message) ==
  [type |-> "TypeError", code |-> "none", message |-> message]

PlainError(message) ==
  [type |-> "Error", code |-> "none", message |-> message]

\* errors.ts is not part of the sources; modelled from the error-code table:
\* a ShellError passes through, anything else becomes internal_error and
\* keeps its message.
toShellError(error) ==
  IF error.type = "ShellError" THEN error
  ELSE ShellError("internal_error", error.message)

(***************************************************************************)
(* Outcome of evaluating a piece of code: it returned a value or it threw. *)
(***************************************************************************)
NoData ==
  [kind |-> "none", documents |-> <<>>, total |-> 0,
   country |-> <<>>, tools |-> {}, countries |-> <<>>]

Return(v)  == [threw |-> FALSE, value |-> v, error |-> NoError]
Throw(e)   == [threw |-> TRUE,  value |-> Undefined, error |-> e]

(***************************************************************************)
(* Adapters (CountryAdapter) and the registry                              *)
(***************************************************************************)
Flags ==
  {"documents", "caseLaw", "preparatoryWorks", "citations", "formatting",
   "currency", "legalStance", "eu", "ingestion"}

DocumentOps  == {"searchDocuments", "getDocument"}
CitationOps  == {"parseCitation", "validateCitation"}
EuOps ==
  {"getEuBasis", "searchEuImplementations", "getNationalImplementations",
   "getProvisionEuBasis", "validateEuCompliance"}

OpNames ==
  DocumentOps \cup CitationOps \cup EuOps \cup
  {"searchCaseLaw", "getPreparatoryWorks", "formatCitation", "checkCurrency",
   "buildLegalStance", "runIngestion"}

germanyAdapter ==
  [code         |-> <<"d", "e">>,
   capabilities |-> [f \in Flags |-> TRUE],
   bound        |-> OpNames,
   impl         |-> "germany"]

\* AdapterRegistry.register
\* a registration that replaces the adapter holding the code
register_overwrite(reg, adapter) ==
  Return((ToLowerCase(adapter.code) :> adapter) @@ reg)

register(reg, adapter) ==
  LET code == ToLowerCase(adapter.code) IN
  IF code \in DOMAIN reg
  THEN Throw(ShellError("duplicate_country",
                        <<"Country adapter is already registered: ", "code">>))
  ELSE Return(reg @@ (code :> adapter))

\* a lookup that does not lower-case the requested code
get_caseSensitive(reg, countryCode) ==
  IF countryCode \in DOMAIN reg
  THEN Return(reg[countryCode])
  ELSE Throw(ShellError("unknown_country",
                        <<"No adapter found for country: ", "countryCode">>))

\* AdapterRegistry.get
get(reg, countryCode) ==
  IF ToLowerCase(countryCode) \in DOMAIN reg
  THEN Return(reg[ToLowerCase(countryCode)])
  ELSE Throw(ShellError("unknown_country",
                        <<"No adapter found for country: ", "countryCode">>))

\* localeCompare over the model's alphabet: position in CharOrder
CharOrder ==
  <<" ", "a", "A", "b", "B", "c", "C", "d", "D", "e", "E", "f", "F", "g",
    "G", "h", "H", "i", "I", "j", "J", "k", "K", "l", "L", "m", "M", "n",
    "N", "o", "O", "p", "P", "q", "Q", "r", "R", "s", "S", "t", "T", "u",
    "U", "v", "V", "w", "W", "x", "X", "y", "Y", "z", "Z">>

CharRank(c) ==
  IF \E i \in DOMAIN CharOrder : CharOrder[i] = c
  THEN CHOOSE i \in DOMAIN CharOrder : CharOrder[i] = c
  ELSE 0

RECURSIVE StrLess(_, _)
StrLess(a, b) ==
  IF b = <<>> THEN FALSE
  ELSE IF a = <<>> THEN TRUE
  ELSE IF CharRank(Head(a)) # CharRank(Head(b))
       THEN CharRank(Head(a)) < CharRank(Head(b))
       ELSE StrLess(Tail(a), Tail(b))

RECURSIVE SortCodes(_)
SortCodes(codes) ==
  IF codes = {} THEN <<>>
  ELSE LET least == CHOOSE c \in codes : \A d \in codes \ {c} : ~StrLess(d, c)
       IN  <<least>> \o SortCodes(codes \ {least})

\* SQLite BINARY collation over the model's alphabet: code-point order
CodePointOrder ==
  <<" ", "(", ")", ",", "-", ".", "/", "0", "1", "2", "3", "4", "5", "6",
    "7", "8", "9", ":", "A", "B", "C", "D", "E", "F", "G", "H", "I", "J",
    "K", "L", "M", "N", "O", "P", "Q", "R", "S", "T", "U", "V", "W", "X",
    "Y", "Z", "_", "a", "b", "c", "d", "e", "f", "g", "h", "i", "j", "k",
    "l", "m", "n", "o", "p", "q", "r", "s", "t", "u", "v", "w", "x", "y",
    "z", "§">>

CodePoint(c) == CHOOSE i \in DOMAIN CodePointOrder : CodePointOrder[i] = c

RECURSIVE BinLess(_, _)
BinLess(a, b) ==
  IF b = <<>> THEN FALSE
  ELSE IF a = <<>> THEN TRUE
  ELSE IF Head(a) # Head(b) THEN CodePoint(Head(a)) < CodePoint(Head(b))
       ELSE BinLess(Tail(a), Tail(b))

\* AdapterRegistry.list: the adapters sorted by country.code
list(reg) == SortCodes({reg[k].code : k \in DOMAIN reg})

(***************************************************************************)
(* Argument validation (module functions of shell.ts)                      *)
(***************************************************************************)
ArgKeys ==
  {"country", "query", "id", "citation", "statuteId", "documentId", "euId",
   "limit", "court", "dateFrom", "dateTo", "style", "asOfDate",
   "includeCaseLaw", "includePreparatoryWorks", "sourceId", "dryRun"}

\* an arguments object: the keys not given read as undefined
Args(given) ==
  [k \in ArgKeys |-> IF k \in DOMAIN given THEN given[k] ELSE Undefined]

requireString(args, key) ==
  LET value == args[key] IN
  IF TypeOf(value) # "string" \/ Len(Trim(value.s)) = 0
  THEN Throw(ShellError("invalid_arguments",
                        <<"Expected non-empty string: ", key>>))
  ELSE Return(value)

optionalString(args, key) ==
  LET value == args[key] IN
  IF value = Undefined THEN Return(Undefined)
  ELSE IF TypeOf(value) # "string"
       THEN Throw(ShellError("invalid_arguments", <<"Expected string: ", key>>))
       ELSE Return(value)

optionalNumber(args, key) ==
  LET value == args[key] IN
  IF value = Undefined THEN Return(Undefined)
  ELSE IF TypeOf(value) # "number" \/ value.t = "NaN"
       THEN Throw(ShellError("invalid_arguments", <<"Expected number: ", key>>))
       ELSE Return(value)

optionalBoolean(args, key) ==
  LET value == args[key] IN
  IF value = Undefined THEN Return(Undefined)
  ELSE IF TypeOf(value) # "boolean"
       THEN Throw(ShellError("invalid_arguments", <<"Expected boolean: ", key>>))
       ELSE Return(value)

StyleDefault  == <<"d">>
StyleShort    == <<"s">>
StylePinpoint == <<"p">>

\* the style names are abbreviated to their first letter
parseCitationStyle(value) ==
  LET normalized == ToLowerCase(Trim(value)) IN
  IF normalized \in {StyleDefault, StyleShort, StylePinpoint}
  THEN Return(Str(normalized))
  ELSE Throw(ShellError("invalid_arguments",
         <<"Expected style to be one of: default, short, pinpoint">>))

(***************************************************************************)
(* Static capability gating (LawMcpShell.require*Adapter)                  *)
(***************************************************************************)
\* this.registry.get(countryCode), unless reading countryCode threw
Resolve(reg, countryCode) ==
  IF countryCode.threw THEN countryCode
  ELSE get(reg, countryCode.value.s)

requireCountry(reg, args) == Resolve(reg, requireString(args, "country"))

Unsupported(what) ==
  Throw(ShellError("unsupported_capability",
                   <<"Country ", "code", " does not support ", what>>))

\* a check of the capability flag alone, not of the bound operations
CheckCapability_flagOnly(adapter, flag, ops, what) ==
  IF adapter.threw THEN adapter
  ELSE IF ~adapter.value.capabilities[flag] THEN Unsupported(what)
       ELSE adapter

\* the check every require*Adapter makes on the adapter it resolved
CheckCapability(adapter, flag, ops, what) ==
  IF adapter.threw THEN adapter
  ELSE IF ~adapter.value.capabilities[flag] \/ ~(ops \subseteq adapter.value.bound)
       THEN Unsupported(what)
       ELSE adapter

requireCapability(reg, args, flag, ops, what) ==
  CheckCapability(requireCountry(reg, args), flag, ops, what)

requireDocumentsAdapter(reg, args) ==
  requireCapability(reg, args, "documents", DocumentOps, "document search")

requireCaseLawAdapter(reg, args) ==
  requireCapability(reg, args, "caseLaw", {"searchCaseLaw"}, "case law search")

requirePreparatoryWorksAdapter(reg, args) ==
  requireCapability(reg, args, "preparatoryWorks", {"getPreparatoryWorks"},
                    "preparatory works retrieval")

requireCitationsAdapter(reg, args) ==
  requireCapability(reg, args, "citations", CitationOps, "citation parsing")

requireFormattingAdapter(reg, args) ==
  requireCapability(reg, args, "formatting", {"formatCitation"},
                    "citation formatting")

requireCurrencyAdapter(reg, args) ==
  requireCapability(reg, args, "currency", {"checkCurrency"}, "currency checks")

requireLegalStanceAdapter(reg, args) ==
  requireCapability(reg, args, "legalStance", {"buildLegalStance"},
                    "legal stance building")

requireEuAdapter(reg, args) ==
  requireCapability(reg, args, "eu", EuOps, "EU linkage")

requireIngestionAdapter(reg, args) ==
  requireCapability(reg, args, "ingestion", {"runIngestion"}, "ingestion")

\* LawMcpShell.countryToolSupport: the tools mapped to true
countryToolSupport(adapter) ==
  LET has(flag, ops) == adapter.capabilities[flag] /\ ops \subseteq adapter.bound
  IN
  {t \in {"law_search_documents"} : has("documents", DocumentOps)} \cup
  {t \in {"law_search_case_law"} : has("caseLaw", {"searchCaseLaw"})} \cup
  {t \in {"law_get_preparatory_works"} :
     has("preparatoryWorks", {"getPreparatoryWorks"})} \cup
  {t \in {"law_format_citation"} : has("formatting", {"formatCitation"})} \cup
  {t \in {"law_check_currency"} : has("currency", {"checkCurrency"})} \cup
  {t \in {"law_build_legal_stance"} : has("legalStance", {"buildLegalStance"})} \cup
  {t \in {"law_get_eu_basis"} : has("eu", {"getEuBasis"})} \cup
  {t \in {"law_search_eu_implementations"} :
     has("eu", {"searchEuImplementations"})} \cup
  {t \in {"law_get_national_implementations"} :
     has("eu", {"getNationalImplementations"})} \cup
  {t \in {"law_get_provision_eu_basis"} : has("eu", {"getProvisionEuBasis"})} \cup
  {t \in {"law_validate_eu_compliance"} : has("eu", {"validateEuCompliance"})} \cup
  {t \in {"law_get_document"} : has("documents", {"getDocument"})} \cup
  {t \in {"law_parse_citation"} : has("citations", {"parseCitation"})} \cup
  {t \in {"law_validate_citation"} : has("citations", {"validateCitation"})} \cup
  {t \in {"law_run_ingestion"} : has("ingestion", {"runIngestion"})}

(***************************************************************************)
(* Text helpers used by the citation grammar and by the SQL predicates     *)
(***************************************************************************)
Digits  == {"0", "1", "2", "3", "4", "5", "6", "7", "8", "9"}
Letters == {LowerChars[i] : i \in DOMAIN LowerChars} \cup
           {UpperChars[i] : i \in DOMAIN UpperChars}

IsAlnum(c) == c \in Digits \cup Letters

Range(seq) == {seq[i] : i \in DOMAIN seq}

Min(a, b) == IF a < b THEN a ELSE b

Limit(rows, n) == SubSeq(rows, 1, Min(n, Len(rows)))

Reverse(seq) == [i \in DOMAIN seq |-> seq[Len(seq) + 1 - i]]

IsPrefix(p, w) == Len(p) <= Len(w) /\ SubSeq(w, 1, Len(p)) = p

Contains(hay, needle) ==
  \E i \in 1..(Len(hay) - Len(needle) + 1) :
    SubSeq(hay, i, i + Len(needle) - 1) = needle

\* the maximal runs of characters of keep, in order: where the run that
\* starts at i ends
RunEnd(s, i, keep) ==
  CHOOSE j \in i..Len(s) :
    /\ \A k \in i..j : s[k] \in keep
    /\ (j = Len(s) \/ s[j + 1] \notin keep)

RECURSIVE RunsFrom(_, _, _)
RunsFrom(s, p, keep) ==
  IF \A i \in p..Len(s) : s[i] \notin keep THEN <<>>
  ELSE LET i == CHOOSE i \in p..Len(s) :
                  s[i] \in keep /\ \A k \in p..(i - 1) : s[k] \notin keep
       IN  <<SubSeq(s, i, RunEnd(s, i, keep))>>
           \o RunsFrom(s, RunEnd(s, i, keep) + 1, keep)

Runs(s, cur, keep) == RunsFrom(cur \o s, 1, keep)

Alphabet ==
  Digits \cup Letters \cup {" ", "§", "_", "-", ",", ":", ".", "/", "(", ")"}

\* value.split(/\s+/) without the empty pieces
SplitWhitespace(s) == Runs(s, <<>>, {c \in Alphabet : ~IsSpace(c)})

\* the unicode61 tokenizer: runs of letters and digits, lower-cased
Words(s) == Runs(ToLowerCase(s), <<>>, Digits \cup Letters)

RECURSIVE JoinWithSpace(_)
JoinWithSpace(parts) ==
  IF parts = <<>> THEN <<>>
  ELSE IF Len(parts) = 1 THEN parts[1]
  ELSE parts[1] \o <<" ">> \o JoinWithSpace(Tail(parts))

\* german-citation.ts normalizeWhitespace: trim and collapse runs of spaces
normalizeWhitespace(value) == JoinWithSpace(SplitWhitespace(value))

UpperOf(c) ==
  IF \E i \in DOMAIN LowerChars : LowerChars[i] = c
  THEN UpperChars[CHOOSE i \in DOMAIN LowerChars : LowerChars[i] = c]
  ELSE c

\* german-citation.ts normalizeCode
normalizeCode(value) == [i \in DOMAIN value |-> UpperOf(value[i])]

\* german-law-db.ts dedupeStrings: trimmed, non-empty, first occurrence kept
RECURSIVE dedupeStrings(_)
dedupeStrings(values) ==
  IF values = <<>> THEN <<>>
  ELSE LET last == Trim(values[Len(values)])
           init == dedupeStrings(SubSeq(values, 1, Len(values) - 1))
       IN  IF last = <<>> \/ last \in Range(init) THEN init
           ELSE Append(init, last)

(***************************************************************************)
(* german-citation.ts: PARAGRAPH_PATTERN and ARTICLE_PATTERN, matched      *)
(* case-insensitively as the regular-expression engine matches them: the   *)
(* alternatives of every choice are tried in the pattern's order (greedy   *)
(* first), and the first way through that ends in a code at the end of     *)
(* the input is the match.  A position is an index into the input.         *)
(***************************************************************************)
NoCitation ==
  [matched |-> FALSE, type |-> "none", marker |-> <<>>, section |-> <<>>,
   article |-> <<>>, paragraph |-> <<>>, sentence |-> <<>>, number |-> <<>>,
   letter |-> <<>>, code |-> <<>>, normalized |-> <<>>,
   lookupCitations |-> <<>>]

\* (?<code>[A-Za-z][A-Za-z0-9_-]{1,19})
IsCode(s) ==
  /\ Len(s) >= 2
  /\ Len(s) <= 20
  /\ s[1] \in Letters
  /\ \A i \in 2..Len(s) : IsAlnum(s[i]) \/ s[i] \in {"_", "-"}

\* the number of leading characters of s that are in keep
RECURSIVE Span(_, _)
Span(s, keep) ==
  IF s = <<>> \/ Head(s) \notin keep THEN 0 ELSE 1 + Span(Tail(s), keep)

IsMarker == {"§"}
Spaces   == {" "}

Drop(s, n) == SubSeq(s, n + 1, Len(s))

\* the position after the characters of keep that start at position p
After(s, p, keep) == p + Span(Drop(s, p - 1), keep)

CharAt(s, p) == IF p \in DOMAIN s THEN s[p] ELSE ""

\* the lower-cased word w is written at position p, in either case
WordAt(s, p, w) ==
  /\ p + Len(w) - 1 <= Len(s)
  /\ ToLowerCase(SubSeq(s, p, p + Len(w) - 1)) = w

WordChars == Digits \cup Letters \cup {"_"}

\* /\bbis\b/i
HasBis(section) ==
  \E i \in DOMAIN section :
    /\ WordAt(section, i, <<"b", "i", "s">>)
    /\ CharAt(section, i - 1) \notin WordChars
    /\ CharAt(section, i + 3) \notin WordChars

\* german-citation.ts resolveSectionMarker
resolveSectionMarker(marker, section) ==
  IF \/ marker = <<"§", "§">>
     \/ HasBis(section)
     \/ \E i \in DOMAIN section : section[i] \in {",", "-"}
  THEN <<"§", "§">>
  ELSE <<"§">>

\* \d+[a-z]? at position p: the positions it can end at, the letter taken
\* first
ItemEnds(s, p) ==
  IF CharAt(s, p) \notin Digits THEN <<>>
  ELSE (IF CharAt(s, After(s, p, Digits)) \in Letters
        THEN <<After(s, p, Digits) + 1>> ELSE <<>>)
       \o <<After(s, p, Digits)>>

\* \s*(?:bis|-|,)\s* at position q: the position after it, 0 for no match
AfterSeparator(s, q) ==
  IF WordAt(s, After(s, q, Spaces), <<"b", "i", "s">>)
  THEN After(s, After(s, q, Spaces) + 3, Spaces)
  ELSE IF CharAt(s, After(s, q, Spaces)) \in {"-", ","}
       THEN After(s, After(s, q, Spaces) + 1, Spaces)
       ELSE 0

MAX_SECTION_REPEATS == 5

\* SECTION_PATTERN after an item that ends at q, n repetitions taken: the
\* positions the section can end at, more repetitions first
RECURSIVE SectionEnds(_, _, _)
SectionEnds(s, q, n) ==
  LET ends == IF n < MAX_SECTION_REPEATS /\ AfterSeparator(s, q) > 0
              THEN ItemEnds(s, AfterSeparator(s, q)) ELSE <<>>
  IN  (IF Len(ends) >= 1 THEN SectionEnds(s, ends[1], n + 1) ELSE <<>>)
      \o (IF Len(ends) >= 2 THEN SectionEnds(s, ends[2], n + 1) ELSE <<>>)
      \o <<q>>

\* SECTION_PATTERN at position p
SectionCandidates(s, p) ==
  LET ends == ItemEnds(s, p)
  IN  (IF Len(ends) >= 1 THEN SectionEnds(s, ends[1], 0) ELSE <<>>)
      \o (IF Len(ends) >= 2 THEN SectionEnds(s, ends[2], 0) ELSE <<>>)

\* \s*(?:Short\.?|Long) at position p: the positions it can end at
KeywordEnds(s, p, short, long) ==
  LET k == After(s, p, Spaces) IN
  (IF WordAt(s, k, short) /\ CharAt(s, k + Len(short)) = "."
   THEN <<k + Len(short) + 1>> ELSE <<>>)
  \o (IF WordAt(s, k, short) THEN <<k + Len(short)>> ELSE <<>>)
  \o (IF WordAt(s, k, long) THEN <<k + Len(long)>> ELSE <<>>)

\* a captured group: the text from from to before pos
Capture(from, pos) == [from |-> from, pos |-> pos]

\* \s*(\d+[a-z]?) or \s*([a-z]) after a keyword that ends at k
ValueCandidates(s, k, letterOnly) ==
  LET d == After(s, k, Spaces) IN
  IF letterOnly
  THEN (IF CharAt(s, d) \in Letters THEN <<Capture(d, d + 1)>> ELSE <<>>)
  ELSE [i \in DOMAIN ItemEnds(s, d) |-> Capture(d, ItemEnds(s, d)[i])]

RECURSIVE KeywordValues(_, _, _)
KeywordValues(s, keywordEnds, letterOnly) ==
  IF keywordEnds = <<>> THEN <<>>
  ELSE ValueCandidates(s, Head(keywordEnds), letterOnly)
       \o KeywordValues(s, Tail(keywordEnds), letterOnly)

\* an optional group at position p: the ways to match it, then the way
\* that skips it
GroupCandidates(s, p, short, long, letterOnly) ==
  Append(KeywordValues(s, KeywordEnds(s, p, short, long), letterOnly),
         Capture(p, p))

Captured(s, capture) == SubSeq(s, capture.from, capture.pos - 1)

\* the first way through that matched
NoMatch == [NoCitation EXCEPT !.type = "no match"]

FirstMatch(ways) ==
  IF \E i \in DOMAIN ways : ways[i].matched
  THEN ways[CHOOSE i \in DOMAIN ways :
              ways[i].matched /\ \A j \in 1..(i - 1) : ~ways[j].matched]
  ELSE NoMatch

\* \s*(?<code>...)$ at position p
CodeStage(s, p) ==
  IF IsCode(Drop(s, After(s, p, Spaces) - 1))
  THEN [NoCitation EXCEPT !.matched = TRUE,
                          !.code = Drop(s, After(s, p, Spaces) - 1)]
  ELSE NoMatch

LetterWays(s, candidates) ==
  [i \in DOMAIN candidates |->
     [CodeStage(s, candidates[i].pos) EXCEPT
        !.letter = Captured(s, candidates[i])]]

\* (?:\s*(?:Buchst\.?|Buchstabe)\s*(?<letter>[a-z]))? and what follows
LetterStage(s, p) ==
  FirstMatch(LetterWays(s,
    GroupCandidates(s, p, <<"b", "u", "c", "h", "s", "t">>,
                    <<"b", "u", "c", "h", "s", "t", "a", "b", "e">>, TRUE)))

NumberWays(s, candidates) ==
  [i \in DOMAIN candidates |->
     [LetterStage(s, candidates[i].pos) EXCEPT
        !.number = Captured(s, candidates[i])]]

\* (?:\s*(?:Nr\.?|Nummer)\s*(?<number>\d+[a-z]?))? and what follows
NumberStage(s, p) ==
  FirstMatch(NumberWays(s,
    GroupCandidates(s, p, <<"n", "r">>, <<"n", "u", "m", "m", "e", "r">>,
                    FALSE)))

SentenceWays(s, candidates) ==
  [i \in DOMAIN candidates |->
     [NumberStage(s, candidates[i].pos) EXCEPT
        !.sentence = Captured(s, candidates[i])]]

\* (?:\s*(?:S\.?|Satz)\s*(?<sentence>\d+[a-z]?))? and what follows
SentenceStage(s, p) ==
  FirstMatch(SentenceWays(s,
    GroupCandidates(s, p, <<"s">>, <<"s", "a", "t", "z">>, FALSE)))

ParagraphWays(s, candidates) ==
  [i \in DOMAIN candidates |->
     [SentenceStage(s, candidates[i].pos) EXCEPT
        !.paragraph = Captured(s, candidates[i])]]

\* (?:\s*(?:Abs\.?|Absatz)\s*(?<paragraph>\d+[a-z]?))? and what follows
ParagraphStage(s, p) ==
  FirstMatch(ParagraphWays(s,
    GroupCandidates(s, p, <<"a", "b", "s">>,
                    <<"a", "b", "s", "a", "t", "z">>, FALSE)))

SectionWays(s, p, ends) ==
  [i \in DOMAIN ends |->
     [ParagraphStage(s, ends[i]) EXCEPT !.section = SubSeq(s, p, ends[i] - 1)]]

\* ^(?<marker>§{1,2})\s*SECTION_PATTERN and what follows
ParagraphMatch(s) ==
  IF Span(s, IsMarker) \notin {1, 2} THEN NoMatch
  ELSE [FirstMatch(SectionWays(s, After(s, Span(s, IsMarker) + 1, Spaces),
          SectionCandidates(s, After(s, Span(s, IsMarker) + 1, Spaces))))
        EXCEPT !.marker = SubSeq(s, 1, Span(s, IsMarker))]

ArticleWays(s, candidates) ==
  [i \in DOMAIN candidates |->
     [ParagraphStage(s, candidates[i].pos) EXCEPT
        !.article = Captured(s, candidates[i])]]

\* ^(?:Art\.?|Artikel)\s*(?<article>\d+[a-z]?) and what follows
ArticleMatch(s) ==
  FirstMatch(ArticleWays(s,
    KeywordValues(s, KeywordEnds(s, 1, <<"a", "r", "t">>,
                                 <<"a", "r", "t", "i", "k", "e", "l">>),
                  FALSE)))

\* segments.join(" ") of the subdivisions that are present and the code
Segment(label, value) ==
  IF value = <<>> THEN <<>> ELSE <<" ">> \o label \o <<" ">> \o value

Subdivisions(m) ==
  Segment(<<"A", "b", "s", ".">>, m.paragraph)
  \o Segment(<<"S", ".">>, m.sentence)
  \o Segment(<<"N", "r", ".">>, m.number)
  \o Segment(<<"B", "u", "c", "h", "s", "t", ".">>, ToLowerCase(m.letter))
  \o <<" ">> \o m.code

\* german-citation.ts buildParagraphCitation
buildParagraphCitation(m) == m.marker \o <<" ">> \o m.section \o Subdivisions(m)

\* german-citation.ts buildArticleCitation
buildArticleCitation(m) ==
  <<"A", "r", "t", ".", " ">> \o m.article \o Subdivisions(m)

\* the paragraph branch of parseGermanCitation, from the match's groups
ParagraphCitation(m) ==
  [m EXCEPT !.type = "paragraph", !.letter = ToLowerCase(m.letter),
            !.normalized = buildParagraphCitation(m),
            !.lookupCitations =
               << m.marker \o <<" ">> \o m.section \o <<" ">> \o m.code >>]

ParagraphGroups(m) ==
  ParagraphCitation([m EXCEPT
    !.marker = resolveSectionMarker(m.marker, normalizeWhitespace(m.section)),
    !.section = normalizeWhitespace(m.section),
    !.code = normalizeCode(m.code)])

\* the article branch
ArticleCitation(m) ==
  [m EXCEPT !.type = "article", !.letter = ToLowerCase(m.letter),
            !.normalized = buildArticleCitation(m),
            !.lookupCitations =
               << <<"A", "r", "t", " ">> \o m.article \o <<" ">> \o m.code >>]

ArticleGroups(m) ==
  ArticleCitation([m EXCEPT !.article = normalizeWhitespace(m.article),
                            !.code = normalizeCode(m.code)])

ParseArticle(article) ==
  IF article.matched THEN ArticleGroups(article) ELSE NoCitation

ParseParagraph(paragraph, normalizedInput) ==
  IF paragraph.matched THEN ParagraphGroups(paragraph)
  ELSE ParseArticle(ArticleMatch(normalizedInput))

ParseNormalized(normalizedInput) ==
  ParseParagraph(ParagraphMatch(normalizedInput), normalizedInput)

parseGermanCitation(input) == ParseNormalized(normalizeWhitespace(input))

(***************************************************************************)
(* buildFtsQueryVariants.  utils/fts-query.ts is not part of the sources;  *)
(* modelled from its tests: the whitespace-separated tokens as prefix      *)
(* terms, joined by AND in primary and, for two tokens or more, by OR in   *)
(* fallback; an empty query gives an empty primary.                        *)
(***************************************************************************)
buildFtsQueryVariants(query) ==
  LET tokens == SplitWhitespace(query) IN
  [primary     |-> [op |-> "AND", tokens |-> tokens],
   hasFallback |-> Len(tokens) >= 2,
   fallback    |-> [op |-> "OR", tokens |-> tokens]]

(***************************************************************************)
(* The Store (db/german-law-db.ts).  A table is the sequence of its rows   *)
(* in rowid order; a NULL column is the empty string.  Columns that no     *)
(* modelled predicate reads are left out of the rows.                      *)
(***************************************************************************)
DEFAULT_LIMIT == 20
MIN_LIMIT     == 1
MAX_LIMIT     == 100

Null == <<>>

\* german-law-db.ts clampLimit
clampLimit(limit) ==
  IF limit.t \in {"+Infinity", "-Infinity", "NaN"} THEN DEFAULT_LIMIT
  ELSE IF limit.n < MIN_LIMIT * Scale THEN MIN_LIMIT
  ELSE IF limit.n > MAX_LIMIT * Scale THEN MAX_LIMIT
  ELSE limit.n \div Scale

\* request.limit ?? 20
OrDefault(limit) == IF limit = Undefined THEN Whole(DEFAULT_LIMIT) ELSE limit

\* getDb: the handle, or null when the database file is absent
getDb(st) == st.file

tableExists(st, tableName) == tableName \in st.tables

Unavailable == [available |-> FALSE, documents |-> <<>>, total |-> 0]

SearchResponse(documents) ==
  [available |-> TRUE, documents |-> documents, total |-> Len(documents)]

LawDocument(id, kind, title, citation, effectiveDate) ==
  [id |-> id, kind |-> kind, title |-> title, citation |-> citation,
   effectiveDate |-> effectiveDate, textSnippet |-> Null]

\* the value of a column, NULL where the corpus does not fill it
Column(row, name) == IF name \in DOMAIN row THEN row[name] ELSE Null

WithSnippet(document, textSnippet) ==
  [document EXCEPT !.textSnippet = textSnippet]

mapStatuteRowToLawDocument(row) ==
  WithSnippet(LawDocument(row.id, "statute", row.title, row.citation,
                          Column(row, "effective_date")),
              Column(row, "text_snippet"))

mapCaseLawRowToLawDocument(row) ==
  WithSnippet(LawDocument(row.id, "case", row.title, Null, row.decision_date),
              Column(row, "text_snippet"))

mapPreparatoryWorkRowToLawDocument(row) ==
  WithSnippet(LawDocument(row.id, "preparatory_work", row.title,
                          row.statute_citation, row.publication_date),
              Column(row, "text_snippet"))

MapRows(rows, Map(_)) == [i \in DOMAIN rows |-> Map(rows[i])]

\* a merge that does not consult the seen ids
RECURSIVE pushUniqueRows_unseen(_, _, _, _)
pushUniqueRows_unseen(target, seen, rows, limit) ==
  IF rows = <<>> THEN [target |-> target, seen |-> seen]
  ELSE IF Len(target) + 1 >= limit
       THEN [target |-> Append(target, Head(rows)),
             seen |-> seen \cup {Head(rows).id}]
       ELSE pushUniqueRows_unseen(Append(target, Head(rows)),
                                  seen \cup {Head(rows).id}, Tail(rows), limit)

\* german-law-db.ts pushUniqueRows: target and seen after the loop
RECURSIVE pushUniqueRows(_, _, _, _)
pushUniqueRows(target, seen, rows, limit) ==
  IF rows = <<>> THEN [target |-> target, seen |-> seen]
  ELSE LET row == Head(rows) IN
       IF row.id \in seen
       THEN pushUniqueRows(target, seen, Tail(rows), limit)
       ELSE IF Len(target) + 1 >= limit
            THEN [target |-> Append(target, row), seen |-> seen \cup {row.id}]
            ELSE pushUniqueRows(Append(target, row), seen \cup {row.id},
                                Tail(rows), limit)

\* SQLite LIKE '%term%': substring, letters compared without case
Like(column, term) == Contains(ToLowerCase(column), ToLowerCase(term))

\* FTS5 MATCH of a compiled expression: every (AND) or some (OR) token is
\* a prefix of a word of the indexed text
TokenHits(token, text) ==
  /\ Words(token) # <<>>
  /\ \A w \in Range(Words(token)) : \E v \in Range(Words(text)) : IsPrefix(w, v)

FtsMatch(expr, text) ==
  IF expr.op = "AND"
  THEN \A i \in DOMAIN expr.tokens : TokenHits(expr.tokens[i], text)
  ELSE \E i \in DOMAIN expr.tokens : TokenHits(expr.tokens[i], text)

\* ORDER BY bm25(...): the rank order of the index, rowid order or its reverse
Bm25Order(st, rows) == IF st.bm25 = "reverse" THEN Reverse(rows) ELSE rows

FtsResult(ok, rows) == [ok |-> ok, rows |-> rows]

\* the search terms of the substring stage
LikeTerms(query) ==
  LET tokens == SelectSeq(SplitWhitespace(query), LAMBDA t : Len(t) > 1)
  IN  IF Len(tokens) > 0 THEN tokens ELSE <<Trim(query)>>

(* ---- statutes ---- *)
StatuteText(row) == row.title \o <<" ">> \o row.citation

runLawFtsQuery(st, ftsQuery, limit) ==
  IF st.bm25 = "error" THEN FtsResult(FALSE, <<>>)
  ELSE FtsResult(TRUE,
         Limit(Bm25Order(st, SelectSeq(st.law,
                 LAMBDA row : FtsMatch(ftsQuery, StatuteText(row)))), limit))

\* WHERE lower(citation) IN (...) ORDER BY CASE ... END, id LIMIT ?
SelectExactCitationRows(st, citations, limit) ==
  Limit(SortSeq(SelectSeq(st.law,
                  LAMBDA row : ToLowerCase(row.citation) \in Range(citations)),
                LAMBDA a, b :
                  \/ /\ ToLowerCase(a.citation) = citations[1]
                     /\ ToLowerCase(b.citation) # citations[1]
                  \/ /\ (ToLowerCase(a.citation) = citations[1])
                          = (ToLowerCase(b.citation) = citations[1])
                     /\ BinLess(a.id, b.id)),
        limit)

ExactCitationRows(st, parsed, limit) ==
  IF ~parsed.matched \/ Len(parsed.lookupCitations) = 0 THEN <<>>
  ELSE SelectExactCitationRows(st,
         MapRows(dedupeStrings(parsed.lookupCitations), ToLowerCase), limit)

findExactCitationRows(st, query, limit) ==
  ExactCitationRows(st, parseGermanCitation(query), limit)

LikeAllTerms(st, searchTerms, limit) ==
  Limit(SelectSeq(st.law,
          LAMBDA row : \A i \in DOMAIN searchTerms :
                         Like(row.title, searchTerms[i])
                         \/ Like(row.citation, searchTerms[i])),
        limit)

runLawLikeQuery(st, query, limit) == LikeAllTerms(st, LikeTerms(query), limit)

\* pushUniqueRows of the rows of a full-text query that did not fail
PushRows(merged, fts, limit) ==
  IF fts.ok THEN pushUniqueRows(merged.target, merged.seen, fts.rows, limit)
  ELSE merged

Pushed(merged, rows, limit) ==
  pushUniqueRows(merged.target, merged.seen, rows, limit)

NothingMerged == [target |-> <<>>, seen |-> {}]

\* searchGermanLawDocuments, stage by stage: each takes the rows merged so
\* far and returns the rows the function ends with
LawLikeStage(st, query, clampedLimit, remaining, merged) ==
  Pushed(merged, runLawLikeQuery(st, query, remaining * 3), clampedLimit).target

LawAfterFallback(st, query, clampedLimit, remaining, merged) ==
  IF Len(merged.target) >= clampedLimit THEN merged.target
  ELSE LawLikeStage(st, query, clampedLimit, remaining, merged)

LawAfterPrimary(st, query, clampedLimit, remaining, variants, merged) ==
  IF Len(merged.target) >= clampedLimit THEN merged.target
  ELSE LawAfterFallback(st, query, clampedLimit, remaining,
         IF variants.hasFallback
         THEN PushRows(merged, runLawFtsQuery(st, variants.fallback, remaining * 3),
                       clampedLimit)
         ELSE merged)

LawFtsStage(st, query, clampedLimit, remaining, variants, merged) ==
  IF Len(variants.primary.tokens) = 0 THEN merged.target
  ELSE IF tableExists(st, "law_documents_fts")
       THEN LawAfterPrimary(st, query, clampedLimit, remaining, variants,
              PushRows(merged, runLawFtsQuery(st, variants.primary, remaining * 3),
                       clampedLimit))
       ELSE LawLikeStage(st, query, clampedLimit, remaining, merged)

LawAfterExact(st, query, clampedLimit, merged) ==
  IF Len(merged.target) >= clampedLimit THEN merged.target
  ELSE LawFtsStage(st, query, clampedLimit, clampedLimit - Len(merged.target),
                   buildFtsQueryVariants(query), merged)

LawStages(st, query, clampedLimit) ==
  LawAfterExact(st, query, clampedLimit,
    Pushed(NothingMerged, findExactCitationRows(st, query, clampedLimit),
           clampedLimit))

searchGermanLawDocuments(st, query, limit) ==
  IF ~getDb(st) \/ ~tableExists(st, "law_documents") THEN Unavailable
  ELSE SearchResponse(MapRows(LawStages(st, query, clampLimit(limit)),
                              mapStatuteRowToLawDocument))

(* ---- case law ---- *)
Truthy(v) == v.t = "string" /\ v.s # <<>>

TrimmedTruthy(v) == v.t = "string" /\ Trim(v.s) # <<>>

IsIsoDate(trimmed) ==
  /\ Len(trimmed) = 10
  /\ \A i \in {1, 2, 3, 4, 6, 7, 9, 10} : trimmed[i] \in Digits
  /\ trimmed[5] = "-" /\ trimmed[8] = "-"

\* german-law-db.ts normalizeIsoDate: the trimmed date, or Null
normalizeIsoDate(value) ==
  IF Truthy(value) /\ IsIsoDate(Trim(value.s)) THEN Trim(value.s) ELSE Null

\* buildCaseFilterSql: the operands of the clauses it adds, Null for none
buildCaseFilterSql(request) ==
  [court    |-> IF TrimmedTruthy(request["court"]) THEN Trim(request["court"].s)
                ELSE Null,
   dateFrom |-> normalizeIsoDate(request["dateFrom"]),
   dateTo   |-> normalizeIsoDate(request["dateTo"])]

\* the predicate the filter clause evaluates to on a row
CaseFilter(filters, row) ==
  /\ filters.court # Null => Like(row.court, filters.court)
  /\ filters.dateFrom # Null =>
       (row.decision_date # Null /\ ~BinLess(row.decision_date, filters.dateFrom))
  /\ filters.dateTo # Null =>
       (row.decision_date # Null /\ ~BinLess(filters.dateTo, row.decision_date))

\* ORDER BY decision_date DESC, id DESC
CaseBefore(a, b) ==
  \/ BinLess(b.decision_date, a.decision_date)
  \/ a.decision_date = b.decision_date /\ BinLess(b.id, a.id)

ExactCaseRows(st, lower, limit, filters) ==
  Limit(SortSeq(SelectSeq(st.cases,
                  LAMBDA row : /\ \/ (row.ecli # Null /\ ToLowerCase(row.ecli) = lower)
                                  \/ ToLowerCase(row.id) = lower
                               /\ CaseFilter(filters, row)),
                CaseBefore),
        limit)

findExactCaseRows(st, query, limit, filters) ==
  ExactCaseRows(st, ToLowerCase(query), limit, filters)

runCaseLawFtsQuery(st, ftsQuery, limit, filters) ==
  IF st.bm25 = "error" THEN FtsResult(FALSE, <<>>)
  ELSE FtsResult(TRUE,
         Limit(Bm25Order(st, SelectSeq(st.cases,
                 LAMBDA row : FtsMatch(ftsQuery, row.title)
                              /\ CaseFilter(filters, row))), limit))

CaseLikeAllTerms(st, searchTerms, limit, filters) ==
  Limit(SortSeq(SelectSeq(st.cases,
                  LAMBDA row :
                    /\ \A i \in DOMAIN searchTerms :
                         \/ Like(row.title, searchTerms[i])
                         \/ Like(row.court, searchTerms[i])
                         \/ Like(row.ecli, searchTerms[i])
                    /\ CaseFilter(filters, row)),
                CaseBefore),
        limit)

\* a substring stage that leaves the filter clause out
runCaseLawLikeQuery_unfiltered(st, query, limit, filters) ==
  CaseLikeAllTerms(st, LikeTerms(query), limit,
                   [court |-> Null, dateFrom |-> Null, dateTo |-> Null])

runCaseLawLikeQuery(st, query, limit, filters) ==
  CaseLikeAllTerms(st, LikeTerms(query), limit, filters)

CaseLikeStage(st, query, clampedLimit, remaining, filters, merged) ==
  Pushed(merged, runCaseLawLikeQuery(st, query, remaining * 3, filters),
         clampedLimit).target

CaseAfterFallback(st, query, clampedLimit, remaining, filters, merged) ==
  IF Len(merged.target) >= clampedLimit THEN merged.target
  ELSE CaseLikeStage(st, query, clampedLimit, remaining, filters, merged)

CaseAfterPrimary(st, query, clampedLimit, remaining, filters, variants, merged) ==
  IF Len(merged.target) >= clampedLimit THEN merged.target
  ELSE CaseAfterFallback(st, query, clampedLimit, remaining, filters,
         IF variants.hasFallback
         THEN PushRows(merged,
                       runCaseLawFtsQuery(st, variants.fallback, remaining * 3, filters),
                       clampedLimit)
         ELSE merged)

CaseFtsStage(st, query, clampedLimit, remaining, filters, variants, merged) ==
  IF Len(variants.primary.tokens) > 0 /\ tableExists(st, "case_law_documents_fts")
  THEN CaseAfterPrimary(st, query, clampedLimit, remaining, filters, variants,
         PushRows(merged,
                  runCaseLawFtsQuery(st, variants.primary, remaining * 3, filters),
                  clampedLimit))
  ELSE CaseLikeStage(st, query, clampedLimit, remaining, filters, merged)

CaseAfterExact(st, query, clampedLimit, filters, merged) ==
  IF Len(merged.target) >= clampedLimit THEN merged.target
  ELSE CaseFtsStage(st, query, clampedLimit, clampedLimit - Len(merged.target),
                    filters, buildFtsQueryVariants(query), merged)

CaseStages(st, query, clampedLimit, filters) ==
  CaseAfterExact(st, query, clampedLimit, filters,
    Pushed(NothingMerged, findExactCaseRows(st, query, clampedLimit, filters),
           clampedLimit))

searchGermanCaseLawDocuments(st, request) ==
  IF ~getDb(st) \/ ~tableExists(st, "case_law_documents") THEN Unavailable
  ELSE IF Trim(request["query"].s) = <<>> THEN SearchResponse(<<>>)
  ELSE SearchResponse(
         MapRows(CaseStages(st, Trim(request["query"].s),
                            clampLimit(OrDefault(request["limit"])),
                            buildCaseFilterSql(request)),
                 mapCaseLawRowToLawDocument))

(* ---- preparatory works ---- *)
TruthyText(v) == IF Truthy(v) THEN <<v.s>> ELSE <<>>

CitationHints(citation, parsedCitation) ==
  IF ~Truthy(citation) THEN <<>>
  ELSE IF parsedCitation.matched
       THEN <<citation.s, parsedCitation.normalized, parsedCitation.code>>
       ELSE <<citation.s>>

buildPreparatorySearchHints(request) ==
  dedupeStrings(TruthyText(request["query"]) \o TruthyText(request["statuteId"])
                \o CitationHints(request["citation"],
                                 parseGermanCitation(request["citation"].s)))

LongerThanOne(values) == SelectSeq(values, LAMBDA t : Len(t) > 1)

\* the citation tokens of buildPreparatoryFilterSql
CitationTokens(citation, parsed) ==
  IF ~TrimmedTruthy(citation) THEN <<>>
  ELSE LongerThanOne(MapRows(
         dedupeStrings(<<citation.s>> \o
                       (IF parsed.matched THEN <<parsed.normalized, parsed.code>>
                        ELSE <<>>)),
         ToLowerCase))

\* buildPreparatoryFilterSql: the operands of the clauses it adds
buildPreparatoryFilterSql(request) ==
  [statuteId |-> IF TrimmedTruthy(request["statuteId"])
                 THEN ToLowerCase(Trim(request["statuteId"].s)) ELSE Null,
   tokens    |-> CitationTokens(request["citation"],
                                parseGermanCitation(request["citation"].s))]

\* the predicate the filter clause evaluates to on a row
PreparatoryFilter(filters, row) ==
  /\ filters.statuteId # Null => ToLowerCase(row.statute_id) = filters.statuteId
  /\ Len(filters.tokens) > 0 =>
       \E i \in DOMAIN filters.tokens :
         \/ Like(row.statute_citation, filters.tokens[i])
         \/ Like(row.title, filters.tokens[i])

\* ORDER BY publication_date DESC, id DESC
PreparatoryBefore(a, b) ==
  \/ BinLess(b.publication_date, a.publication_date)
  \/ a.publication_date = b.publication_date /\ BinLess(b.id, a.id)

RECURSIVE FlattenTokens(_)
FlattenTokens(hints) ==
  IF hints = <<>> THEN <<>>
  ELSE SplitWhitespace(Head(hints)) \o FlattenTokens(Tail(hints))

tokenizeHints(hints) == dedupeStrings(LongerThanOne(FlattenTokens(hints)))

runPreparatoryFtsQuery(st, ftsQuery, limit, filters) ==
  IF st.bm25 = "error" THEN FtsResult(FALSE, <<>>)
  ELSE FtsResult(TRUE,
         Limit(Bm25Order(st, SelectSeq(st.prep,
                 LAMBDA row : FtsMatch(ftsQuery,
                                       row.title \o <<" ">> \o row.statute_citation)
                              /\ PreparatoryFilter(filters, row))), limit))

\* every token in the title or in the statute citation; "1 = 0" without tokens
PreparatoryLikeAllTokens(st, tokens, limit, filters) ==
  Limit(SortSeq(SelectSeq(st.prep,
                  LAMBDA row :
                    /\ Len(tokens) > 0
                    /\ \A i \in DOMAIN tokens :
                         \/ Like(row.title, tokens[i])
                         \/ Like(row.statute_citation, tokens[i])
                    /\ PreparatoryFilter(filters, row)),
                PreparatoryBefore),
        limit)

runPreparatoryLikeQuery(st, hints, limit, filters) ==
  PreparatoryLikeAllTokens(st, tokenizeHints(hints), limit, filters)

runPreparatoryFilteredQuery(st, limit, filters) ==
  Limit(SortSeq(SelectSeq(st.prep, LAMBDA row : PreparatoryFilter(filters, row)),
                PreparatoryBefore),
        limit)

PreparatoryListing(st, clampedLimit, filters, hints, merged) ==
  IF Len(merged.target) = 0 /\ Len(hints) = 0
  THEN Pushed(merged, runPreparatoryFilteredQuery(st, clampedLimit, filters),
              clampedLimit).target
  ELSE merged.target

PreparatoryLikeStage(st, clampedLimit, filters, hints, merged) ==
  PreparatoryListing(st, clampedLimit, filters, hints,
    Pushed(merged, runPreparatoryLikeQuery(st, hints, clampedLimit * 3, filters),
           clampedLimit))

PreparatoryAfterFallback(st, clampedLimit, filters, hints, merged) ==
  IF Len(merged.target) >= clampedLimit THEN merged.target
  ELSE PreparatoryLikeStage(st, clampedLimit, filters, hints, merged)

PreparatoryAfterPrimary(st, clampedLimit, filters, hints, variants, merged) ==
  IF Len(merged.target) >= clampedLimit THEN merged.target
  ELSE PreparatoryAfterFallback(st, clampedLimit, filters, hints,
         IF variants.hasFallback
         THEN PushRows(merged,
                runPreparatoryFtsQuery(st, variants.fallback, clampedLimit * 3, filters),
                clampedLimit)
         ELSE merged)

PreparatoryFtsStage(st, clampedLimit, filters, hints, variants) ==
  IF Len(variants.primary.tokens) > 0
  THEN PreparatoryAfterPrimary(st, clampedLimit, filters, hints, variants,
         PushRows(NothingMerged,
                  runPreparatoryFtsQuery(st, variants.primary, clampedLimit * 3, filters),
                  clampedLimit))
  ELSE PreparatoryLikeStage(st, clampedLimit, filters, hints, NothingMerged)

PreparatoryStages(st, clampedLimit, filters, hints) ==
  IF Len(hints) > 0 /\ tableExists(st, "preparatory_works_fts")
  THEN PreparatoryFtsStage(st, clampedLimit, filters, hints,
                           buildFtsQueryVariants(Head(hints)))
  ELSE PreparatoryLikeStage(st, clampedLimit, filters, hints, NothingMerged)

searchGermanPreparatoryWorks(st, request) ==
  IF ~getDb(st) \/ ~tableExists(st, "preparatory_works") THEN Unavailable
  ELSE SearchResponse(
         MapRows(PreparatoryStages(st, clampLimit(OrDefault(request["limit"])),
                                   buildPreparatoryFilterSql(request),
                                   buildPreparatorySearchHints(request)),
                 mapPreparatoryWorkRowToLawDocument))

(***************************************************************************)
(* In-memory seed search (adapter-kit.ts) and the seed corpus: its three   *)
(* documents, their text snippets cut after the first words.               *)
(***************************************************************************)
GERMAN_LEGISLATION ==
  << WithSnippet(
       LawDocument(<<"b", "g", "b", "-", "8", "2", "3">>, "statute",
         <<"B", "u", "e", "r", "g", "e", "r", "l", "i", "c", "h", "e", "s",
           " ", "G", "e", "s", "e", "t", "z", "b", "u", "c", "h", " ", "(",
           "B", "G", "B", ")", " ", "-", " ", "S", "c", "h", "a", "d", "e",
           "n", "s", "e", "r", "s", "a", "t", "z", "p", "f", "l", "i", "c",
           "h", "t">>,
         <<"§", " ", "8", "2", "3", " ", "A", "b", "s", ".", " ", "1", " ",
           "B", "G", "B">>,
         <<"1", "9", "0", "0", "-", "0", "1", "-", "0", "1">>),
       <<"W", "e", "r", " ", "v", "o", "r", "s", "a", "t", "z", "l", "i",
         "c", "h", " ", "o", "d", "e", "r", " ", "f", "a", "h", "r", "l",
         "a", "e", "s", "s", "i", "g", " ", "d", "a", "s", " ", "L", "e",
         "b", "e", "n">>),
     WithSnippet(
       LawDocument(<<"g", "g", "-", "a", "r", "t", "-", "1">>, "statute",
         <<"G", "r", "u", "n", "d", "g", "e", "s", "e", "t", "z", " ", "(",
           "G", "G", ")", " ", "-", " ", "M", "e", "n", "s", "c", "h", "e",
           "n", "w", "u", "e", "r", "d", "e">>,
         <<"A", "r", "t", ".", " ", "1", " ", "A", "b", "s", ".", " ", "1",
           " ", "G", "G">>,
         <<"1", "9", "4", "9", "-", "0", "5", "-", "2", "3">>),
       <<"D", "i", "e", " ", "W", "u", "e", "r", "d", "e", " ", "d", "e",
         "s", " ", "M", "e", "n", "s", "c", "h", "e", "n", " ", "i", "s",
         "t", " ", "u", "n", "a", "n", "t", "a", "s", "t", "b", "a", "r",
         ".">>),
     WithSnippet(
       LawDocument(<<"s", "t", "g", "b", "-", "2", "4", "2">>, "statute",
         <<"S", "t", "r", "a", "f", "g", "e", "s", "e", "t", "z", "b", "u",
           "c", "h", " ", "(", "S", "t", "G", "B", ")", " ", "-", " ", "D",
           "i", "e", "b", "s", "t", "a", "h", "l">>,
         <<"§", " ", "2", "4", "2", " ", "A", "b", "s", ".", " ", "1", " ",
           "S", "t", "G", "B">>,
         <<"1", "8", "7", "2", "-", "0", "1", "-", "0", "1">>),
       <<"W", "e", "r", " ", "e", "i", "n", "e", " ", "f", "r", "e", "m",
         "d", "e", " ", "b", "e", "w", "e", "g", "l", "i", "c", "h", "e",
         " ", "S", "a", "c", "h", "e", " ", "e", "i", "n", "e", "m", " ",
         "a", "n", "d", "e", "r", "e", "n">>) >>

\* adapter-kit.ts clampLimit, then Array.prototype.slice's truncation of its
\* end index; the limit is never NaN here
clampLimitInMemory(limit) ==
  IF limit.t = "-Infinity" THEN MIN_LIMIT
  ELSE IF limit.t = "+Infinity" THEN MAX_LIMIT
  ELSE IF limit.n < MIN_LIMIT * Scale THEN MIN_LIMIT
  ELSE IF limit.n > MAX_LIMIT * Scale THEN MAX_LIMIT
  ELSE limit.n \div Scale

SearchData(documents) ==
  [NoData EXCEPT !.kind = "search", !.documents = documents,
                 !.total = Len(documents)]

searchDocumentsInMemory(documents, request) ==
  LET limit == clampLimitInMemory(OrDefault(request["limit"]))
      query == ToLowerCase(Trim(request["query"].s))
  IN
  IF Len(query) = 0 THEN SearchData(<<>>)
  ELSE SearchData(Limit(SelectSeq(documents,
         LAMBDA doc : \/ Contains(ToLowerCase(doc.title), query)
                      \/ Contains(ToLowerCase(doc.citation), query)
                      \/ Contains(ToLowerCase(doc.textSnippet), query)
                      \/ Contains(ToLowerCase(doc.id), query)), limit))

\* adapter-kit.ts getDocumentFromMemory: the documents with that id
getDocumentFromMemory(documents, id) ==
  SelectSeq(documents, LAMBDA doc : doc.id = id)

(***************************************************************************)
(* The Germany adapter's search operations (adapters/de.ts)                *)
(***************************************************************************)
\* dbSearch, or what the adapter answers when the Store is unavailable
OrElse(dbSearch, fallback) ==
  IF dbSearch.available THEN SearchData(dbSearch.documents) ELSE fallback

germany_searchDocuments(st, request) ==
  OrElse(searchGermanLawDocuments(st, request["query"].s,
                                  OrDefault(request["limit"])),
         searchDocumentsInMemory(GERMAN_LEGISLATION, request))

\* a case-law search that answers from the seed legislation when the Store
\* is unavailable
germany_searchCaseLaw_seed(st, request) ==
  OrElse(searchGermanCaseLawDocuments(st, request),
         searchDocumentsInMemory(GERMAN_LEGISLATION, request))

germany_searchCaseLaw(st, request) ==
  OrElse(searchGermanCaseLawDocuments(st, request), SearchData(<<>>))

germany_getPreparatoryWorks(st, request) ==
  OrElse(searchGermanPreparatoryWorks(st, request), SearchData(<<>>))

(***************************************************************************)
(* Lookups by id (german-law-db.ts).  A lookup answers "unavailable" (the  *)
(* source's undefined), no document (null, the empty sequence here) or one *)
(* document.                                                               *)
(***************************************************************************)
Lookup(available, documents) ==
  [available |-> available, documents |-> documents]

NotAvailable == Lookup(FALSE, <<>>)

\* SELECT ... WHERE id = ? LIMIT 1
RowById(rows, id) == Limit(SelectSeq(rows, LAMBDA row : row.id = id), 1)

getGermanLawDocumentById(st, id) ==
  IF ~getDb(st) \/ ~tableExists(st, "law_documents") THEN NotAvailable
  ELSE Lookup(TRUE, MapRows(RowById(st.law, id), mapStatuteRowToLawDocument))

PreparatoryById(st, id) ==
  IF tableExists(st, "preparatory_works")
  THEN Lookup(TRUE, MapRows(RowById(st.prep, id),
                            mapPreparatoryWorkRowToLawDocument))
  ELSE Lookup(TRUE, <<>>)

CaseLawById(st, id) ==
  IF tableExists(st, "case_law_documents") /\ RowById(st.cases, id) # <<>>
  THEN Lookup(TRUE, MapRows(RowById(st.cases, id), mapCaseLawRowToLawDocument))
  ELSE PreparatoryById(st, id)

getGermanDocumentByAnyId(st, id) ==
  IF ~getDb(st) THEN NotAvailable
  ELSE IF tableExists(st, "law_documents") /\ RowById(st.law, id) # <<>>
       THEN Lookup(TRUE, MapRows(RowById(st.law, id),
                                 mapStatuteRowToLawDocument))
       ELSE CaseLawById(st, id)

\* the data of law_get_document: the document, or none for null
DocumentData(documents) == [kind |-> "document", document |-> documents]

\* adapters/de.ts germanyAdapter.getDocument
germany_getDocument(st, id) ==
  IF getGermanLawDocumentById(st, id).available
  THEN DocumentData(getGermanLawDocumentById(st, id).documents)
  ELSE DocumentData(Limit(getDocumentFromMemory(GERMAN_LEGISLATION, id), 1))

(***************************************************************************)
(* The Germany adapter's citation operations (adapters/de.ts)              *)
(***************************************************************************)
\* the result of an operation that returns null
NullData == [kind |-> "null"]

\* GermanCitationParsed.parsed: a subdivision that is absent is empty
ParsedFields(parsed) ==
  [type |-> parsed.type, marker |-> parsed.marker, section |-> parsed.section,
   article |-> parsed.article, paragraph |-> parsed.paragraph,
   sentence |-> parsed.sentence, number |-> parsed.number,
   letter |-> parsed.letter, code |-> parsed.code]

ParsedCitation(citation, parsed) ==
  IF ~parsed.matched THEN NullData
  ELSE [kind |-> "citation", original |-> citation,
        normalized |-> parsed.normalized, parsed |-> ParsedFields(parsed)]

germany_parseCitation(citation) ==
  ParsedCitation(citation, parseGermanCitation(citation))

\* existsByCitation under a comparison that minds the letter case
existsByCitation_exact(st, citations) ==
  /\ dedupeStrings(citations) # <<>>
  /\ \E i \in DOMAIN st.law :
       /\ st.law[i].citation # Null
       /\ st.law[i].citation \in Range(dedupeStrings(citations))

\* german-law-db.ts existsByCitation
existsByCitation(st, citations) ==
  /\ dedupeStrings(citations) # <<>>
  /\ \E i \in DOMAIN st.law :
       /\ st.law[i].citation # Null
       /\ ToLowerCase(st.law[i].citation)
            \in Range(MapRows(dedupeStrings(citations), ToLowerCase))

\* german-law-db.ts citationExistsInGermanLawDatabase: "null", or the
\* boolean as a string
ExistsParsed(st, parsed) ==
  IF ~parsed.matched \/ parsed.lookupCitations = <<>> THEN "false"
  ELSE IF existsByCitation(st, parsed.lookupCitations) THEN "true"
       ELSE "false"

citationExistsInGermanLawDatabase(st, citation) ==
  IF ~getDb(st) \/ ~tableExists(st, "law_documents") THEN "null"
  ELSE ExistsParsed(st, parseGermanCitation(citation))

REASON_FORMAT ==
  "Citation does not match supported German formats, for example '§ 823 Abs. 1 BGB' or 'Art. 1 Abs. 1 GG'."

REASON_CORPUS ==
  "Citation format is valid, but no matching provision was found in the current German law database."

\* the object validateCitation returns: keys are the keys it has
Validation(keys, valid, normalized, reason) ==
  [kind |-> "validation", keys |-> keys, valid |-> valid,
   normalized |-> normalized, reason |-> reason]

ValidateParsed(parsed, existsInDb) ==
  IF parsed = NullData
  THEN Validation({"valid", "reason"}, FALSE, Null, REASON_FORMAT)
  ELSE IF existsInDb = "false"
       THEN Validation({"valid", "normalized", "reason"}, FALSE,
                       parsed.normalized, REASON_CORPUS)
       ELSE Validation({"valid", "normalized"}, TRUE, parsed.normalized, "")

germany_validateCitation(st, citation) ==
  ValidateParsed(germany_parseCitation(citation),
                 citationExistsInGermanLawDatabase(st, citation))

\* adapters/de.ts collapseWhitespace
collapseWhitespace(value) == JoinWithSpace(SplitWhitespace(value))

\* a formatter that writes the short form in every style
formatGermanCitationByStyle_short(parsed, style) ==
  IF parsed.type = "paragraph"
  THEN collapseWhitespace(<<"§", " ">> \o parsed.section \o <<" ">>
                          \o parsed.code)
  ELSE collapseWhitespace(<<"A", "r", "t", ".", " ">> \o parsed.article
                          \o <<" ">> \o parsed.code)

\* adapters/de.ts formatGermanCitationByStyle
formatGermanCitationByStyle(parsed, style) ==
  IF style \in {StyleDefault, StylePinpoint} THEN parsed.normalized
  ELSE IF parsed.type = "paragraph"
       THEN collapseWhitespace(<<"§", " ">> \o parsed.section \o <<" ">>
                               \o parsed.code)
       ELSE collapseWhitespace(<<"A", "r", "t", ".", " ">> \o parsed.article
                               \o <<" ">> \o parsed.code)

\* the object formatCitation returns
Formatted(keys, original, formatted, style, valid, reason) ==
  [kind |-> "format", keys |-> keys, original |-> original,
   formatted |-> formatted, style |-> style, valid |-> valid,
   reason |-> reason]

FormatParsed(citation, style, parsed) ==
  IF ~parsed.matched
  THEN Formatted({"original", "formatted", "style", "valid", "reason"},
                 citation, Trim(citation), style, FALSE, REASON_FORMAT)
  ELSE Formatted({"original", "formatted", "style", "valid"}, citation,
                 formatGermanCitationByStyle(parsed, style), style, TRUE, "")

\* request.style ?? "default"
OrDefaultStyle(style) == IF style = Undefined THEN StyleDefault ELSE style.s

germany_formatCitation(request) ==
  FormatParsed(request["citation"].s, OrDefaultStyle(request["style"]),
               parseGermanCitation(request["citation"].s))

(***************************************************************************)
(* Statutes by statute id and by citation (german-law-db.ts)               *)
(***************************************************************************)
\* ORDER BY id
ById(a, b) == BinLess(a.id, b.id)

StatuteRows(st, normalized, clampedLimit) ==
  Limit(SortSeq(SelectSeq(st.law,
                  LAMBDA row : /\ Column(row, "statute_id") # Null
                               /\ ToLowerCase(row.statute_id) = normalized),
                ById),
        clampedLimit)

getGermanLawDocumentsByStatuteId(st, statuteId, limit) ==
  IF ~getDb(st) \/ ~tableExists(st, "law_documents") THEN Unavailable
  ELSE IF ToLowerCase(Trim(statuteId)) = <<>> THEN SearchResponse(<<>>)
  ELSE SearchResponse(MapRows(
         StatuteRows(st, ToLowerCase(Trim(statuteId)), clampLimit(limit)),
         mapStatuteRowToLawDocument))

\* [trimmed, parsed?.normalized ?? "", ...(parsed?.lookupCitations ?? [])]
CitationCandidates(trimmed, parsed) ==
  MapRows(dedupeStrings(<<trimmed, parsed.normalized>>
                        \o parsed.lookupCitations),
          ToLowerCase)

\* parsed?.lookupCitations[0] ?? parsed?.normalized ?? trimmed
PreferredCitation(trimmed, parsed) ==
  ToLowerCase(IF parsed.matched THEN parsed.lookupCitations[1] ELSE trimmed)

CitationRows(st, candidates, preferred, clampedLimit) ==
  Limit(SortSeq(SelectSeq(st.law,
                  LAMBDA row : /\ row.citation # Null
                               /\ ToLowerCase(row.citation) \in Range(candidates)),
                LAMBDA a, b :
                  \/ /\ ToLowerCase(a.citation) = preferred
                     /\ ToLowerCase(b.citation) # preferred
                  \/ /\ (ToLowerCase(a.citation) = preferred)
                          = (ToLowerCase(b.citation) = preferred)
                     /\ BinLess(a.id, b.id)),
        clampedLimit)

DocumentsByCitation(st, trimmed, parsed, limit) ==
  SearchResponse(MapRows(
    CitationRows(st, CitationCandidates(trimmed, parsed),
                 PreferredCitation(trimmed, parsed), clampLimit(limit)),
    mapStatuteRowToLawDocument))

getGermanLawDocumentsByCitation(st, citation, limit) ==
  IF ~getDb(st) \/ ~tableExists(st, "law_documents") THEN Unavailable
  ELSE IF Trim(citation) = <<>> THEN SearchResponse(<<>>)
  ELSE DocumentsByCitation(st, Trim(citation),
                           parseGermanCitation(Trim(citation)), limit)

(***************************************************************************)
(* The Germany adapter's currency check (adapters/de.ts checkCurrency)     *)
(***************************************************************************)
STATUTE_ID_LIMIT     == 120
CITATION_LIMIT       == 80
SEED_FALLBACK_LIMIT  == 20

\* adapters/de.ts uniqueDocuments: the first document of each id
RECURSIVE uniqueDocuments(_)
uniqueDocuments(documents) ==
  IF documents = <<>> THEN <<>>
  ELSE LET init == uniqueDocuments(SubSeq(documents, 1, Len(documents) - 1))
           last == documents[Len(documents)]
       IN  IF \E i \in DOMAIN init : init[i].id = last.id THEN init
           ELSE Append(init, last)

\* adapters/de.ts normalizeIsoDate of a document's date
IsoDateOf(date) == IF IsIsoDate(Trim(date)) THEN Trim(date) ELSE Null

\* adapters/de.ts newestDate: the last of the valid dates in their order,
\* Null for undefined; dates of the form YYYY-MM-DD are ordered as their
\* digits are
newestDate(values) ==
  LET validDates == {IsoDateOf(values[i]) : i \in DOMAIN values} \ {Null}
  IN  IF validDates = {} THEN Null
      ELSE CHOOSE d \in validDates : \A e \in validDates : ~BinLess(d, e)

\* request.statuteId?.trim(): Null for undefined
TrimmedOrNull(v) == IF v.t = "string" THEN Trim(v.s) ELSE Null

\* a read that was not made
NotRead == SearchResponse(<<>>)

SeedQuery(query, limit) == ("query" :> Str(query)) @@ ("limit" :> Whole(limit))

CurrencyCollection(byStatute, byCitation, fallback) ==
  [documents |-> uniqueDocuments(
                   byStatute.documents
                   \o (IF byCitation.available THEN byCitation.documents
                       ELSE fallback.documents)),
   dbUnavailable |-> ~byStatute.available \/ ~byCitation.available]

\* adapters/de.ts collectCurrencyDocuments
collectCurrencyDocuments(st, statuteId, citation) ==
  CurrencyCollection(
    IF statuteId # <<>>
    THEN getGermanLawDocumentsByStatuteId(st, statuteId, Whole(STATUTE_ID_LIMIT))
    ELSE NotRead,
    IF citation # <<>>
    THEN getGermanLawDocumentsByCitation(st, citation, Whole(CITATION_LIMIT))
    ELSE NotRead,
    searchDocumentsInMemory(GERMAN_LEGISLATION,
                            SeedQuery(citation, SEED_FALLBACK_LIMIT)))

\* the object checkCurrency returns: keys are the keys it has
Currency(keys, status, statuteId, citation, asOfDate, sourceDate, matches,
         sampleDocumentId) ==
  [kind |-> "currency", keys |-> keys, status |-> status,
   statuteId |-> statuteId, citation |-> citation, asOfDate |-> asOfDate,
   sourceDate |-> sourceDate, matches |-> matches,
   sampleDocumentId |-> sampleDocumentId]

\* ...(value ? { key: value } : {})
KeyIf(key, value) == IF value # <<>> THEN {key} ELSE {}

\* the last two returns: sourceDate and asOfDate are known
CurrencyDated(documents, statuteId, citation, asOfDate, sourceDate) ==
  IF asOfDate # Null /\ sourceDate # Null /\ BinLess(asOfDate, sourceDate)
  THEN Currency({"status", "asOfDate", "sourceDate", "reason", "evidence"}
                  \cup KeyIf("statuteId", statuteId)
                  \cup KeyIf("citation", citation),
                "unknown", statuteId, citation, asOfDate, sourceDate,
                Len(documents), Null)
  ELSE Currency({"status", "evidence"}
                  \cup KeyIf("statuteId", statuteId)
                  \cup KeyIf("citation", citation)
                  \cup KeyIf("asOfDate", asOfDate)
                  \cup KeyIf("sourceDate", sourceDate),
                "likely_in_force", statuteId, citation, asOfDate, sourceDate,
                Len(documents), documents[1].id)

\* the returns of checkCurrency, from the collected documents
CurrencyOf(collected, statuteId, citation, request) ==
  IF collected.documents = <<>>
  THEN Currency({"status", "reason"}
                  \cup KeyIf("statuteId", statuteId)
                  \cup KeyIf("citation", citation)
                  \cup (IF Truthy(request["asOfDate"]) THEN {"asOfDate"} ELSE {}),
                IF collected.dbUnavailable THEN "unknown" ELSE "not_found",
                statuteId, citation,
                IF Truthy(request["asOfDate"]) THEN request["asOfDate"].s
                ELSE Null,
                Null, 0, Null)
  ELSE CurrencyDated(collected.documents, statuteId, citation,
                     normalizeIsoDate(request["asOfDate"]),
                     newestDate([i \in DOMAIN collected.documents |->
                                   collected.documents[i].effectiveDate]))

CurrencyTrimmed(st, statuteId, citation, request) ==
  CurrencyOf(collectCurrencyDocuments(st, statuteId, citation), statuteId,
             citation, request)

germany_checkCurrency(st, request) ==
  CurrencyTrimmed(st, TrimmedOrNull(request["statuteId"]),
                  TrimmedOrNull(request["citation"]), request)

(***************************************************************************)
(* The Germany adapter's legal stance (adapters/de.ts buildLegalStance)    *)
(***************************************************************************)
\* the limits written in adapters/de.ts and advertised in tool-contract.ts
STANCE_DEFAULT_LIMIT     == 10
STANCE_MAX_LIMIT         == 100
ADVERTISED_DEFAULT_LIMIT == 20

\* adapters/de.ts clampLimit(value, min, max)
de_clampLimit(value, min, max) ==
  IF value.t # "number" THEN min
  ELSE IF value.n < min * Scale THEN min
  ELSE IF value.n > max * Scale THEN max
  ELSE value.n \div Scale

\* request.limit ?? fallback
OrLimit(limit, fallback) == IF limit = Undefined THEN Whole(fallback) ELSE limit

\* request.flag ?? true
OrTrue(flag) == IF flag = Undefined THEN TRUE ELSE flag.b

\* documents.map((document) => document.citation ?? "")
CitationsOf(documents) == [i \in DOMAIN documents |-> documents[i].citation]

StanceData(query, statutes, caseLaw, preparatoryWorks, limit) ==
  [kind |-> "stance", query |-> query, statutes |-> statutes,
   caseLaw |-> caseLaw, preparatoryWorks |-> preparatoryWorks,
   keyCitations |->
     Limit(dedupeStrings(CitationsOf(statutes \o caseLaw \o preparatoryWorks)),
           limit * 2)]

\* { query: request.query, limit }
SubRequest(request, limit) ==
  [k \in ArgKeys |-> IF k = "query" THEN request["query"]
                     ELSE IF k = "limit" THEN Whole(limit) ELSE Undefined]

StanceWithLimit(st, request, limit) ==
  StanceData(request["query"].s,
             germany_searchDocuments(st, SubRequest(request, limit)).documents,
             IF OrTrue(request["includeCaseLaw"])
             THEN germany_searchCaseLaw(st, SubRequest(request, limit)).documents
             ELSE <<>>,
             IF OrTrue(request["includePreparatoryWorks"])
             THEN germany_getPreparatoryWorks(st, SubRequest(request, limit)).documents
             ELSE <<>>,
             limit)

germany_buildLegalStance(st, request) ==
  StanceWithLimit(st, request,
                  de_clampLimit(OrLimit(request["limit"], STANCE_DEFAULT_LIMIT),
                                MIN_LIMIT, STANCE_MAX_LIMIT))

(***************************************************************************)
(* EU acts named in a text (adapters/de.ts extractEuActsFromText).  The    *)
(* five patterns are matched case-insensitively at a position of the text; *)
(* a match is the act it names and the position after it.                  *)
(***************************************************************************)
\* \b before position p
Boundary(s, p) == (CharAt(s, p - 1) \in WordChars) # (CharAt(s, p) \in WordChars)

NoAct ==
  [ok |-> FALSE, pos |-> 0, jurisdiction |-> <<>>, year |-> <<>>,
   number |-> <<>>, type |-> <<>>]

\* (?<jur>EU|EG|EWG) at position p: its length, 0 for no match
JurisdictionAt(s, p) ==
  IF WordAt(s, p, <<"e", "u">>) \/ WordAt(s, p, <<"e", "g">>) THEN 2
  ELSE IF WordAt(s, p, <<"e", "w", "g">>) THEN 3
  ELSE 0

\* (?<type>Richtlinie|Directive|Verordnung|Regulation) at position p: its
\* length, 0 for no match
TypeAt(s, p) ==
  IF \/ WordAt(s, p, <<"r", "i", "c", "h", "t", "l", "i", "n", "i", "e">>)
     \/ WordAt(s, p, <<"v", "e", "r", "o", "r", "d", "n", "u", "n", "g">>)
     \/ WordAt(s, p, <<"r", "e", "g", "u", "l", "a", "t", "i", "o", "n">>)
  THEN 10
  ELSE IF WordAt(s, p, <<"d", "i", "r", "e", "c", "t", "i", "v", "e">>)
       THEN 9
       ELSE 0

\* (?:Nr\.?\s*)? at position p: the position after it
AfterNr(s, p) ==
  IF ~WordAt(s, p, <<"n", "r">>) THEN p
  ELSE IF CharAt(s, p + 2) = "." THEN After(s, p + 3, Spaces)
       ELSE After(s, p + 2, Spaces)

\* (?<num>\d{2,4}\/\d{2,4}) at position p, of a year of l1 digits and a
\* number of l2 digits, followed by last: "" stands for \b
NumberOf(s, p, l1, l2, last) ==
  IF /\ l1 \in 2..4
     /\ CharAt(s, p + l1) = "/"
     /\ l2 \in 2..4
     /\ IF last = "" THEN Boundary(s, p + l1 + 1 + l2)
        ELSE CharAt(s, p + l1 + 1 + l2) = last
  THEN [NoAct EXCEPT !.ok = TRUE, !.pos = p + l1 + 1 + l2,
                     !.year = SubSeq(s, p, p + l1 - 1),
                     !.number = SubSeq(s, p + l1 + 1, p + l1 + l2)]
  ELSE NoAct

NumberAt(s, p, last) ==
  NumberOf(s, p, Span(Drop(s, p - 1), Digits),
           Span(Drop(s, p + Span(Drop(s, p - 1), Digits)), Digits), last)

\* a number and the jurisdiction written before it
Prefixed(s, j, len, num) ==
  IF num.ok THEN [num EXCEPT !.jurisdiction = SubSeq(s, j, j + len - 1)]
  ELSE NoAct

\* \/(?<jur>EU|EG|EWG)\b after a number
Suffixed(s, num) ==
  IF /\ num.ok
     /\ JurisdictionAt(s, num.pos + 1) > 0
     /\ Boundary(s, num.pos + 1 + JurisdictionAt(s, num.pos + 1))
  THEN [num EXCEPT !.pos = num.pos + 1 + JurisdictionAt(s, num.pos + 1),
                   !.jurisdiction =
                      SubSeq(s, num.pos + 1,
                             num.pos + JurisdictionAt(s, num.pos + 1))]
  ELSE NoAct

\* EU_GENERIC_PREFIX_PATTERN without its leading \b, at position p
JurisdictionThenNumber(s, p) ==
  IF JurisdictionAt(s, p) = 0 THEN NoAct
  ELSE Prefixed(s, p, JurisdictionAt(s, p),
         NumberAt(s, AfterNr(s, After(s, p + JurisdictionAt(s, p), Spaces)),
                  ""))

\* \((?<jur1>EU|EG|EWG)\) and what follows it in EU_TYPED_PREFIX_PATTERN
BracketedThenNumber(s, p) ==
  IF JurisdictionAt(s, p + 1) = 0
     \/ CharAt(s, p + 1 + JurisdictionAt(s, p + 1)) # ")"
  THEN NoAct
  ELSE Prefixed(s, p + 1, JurisdictionAt(s, p + 1),
         NumberAt(s, AfterNr(s, After(s, p + 2 + JurisdictionAt(s, p + 1),
                                      Spaces)), ""))

Typed(s, p, act) ==
  IF act.ok THEN [act EXCEPT !.type = SubSeq(s, p, p + TypeAt(s, p) - 1)]
  ELSE NoAct

\* EU_TYPED_PREFIX_PATTERN at position p
TypedPrefixAt(s, p) ==
  IF ~Boundary(s, p) \/ TypeAt(s, p) = 0 THEN NoAct
  ELSE IF CharAt(s, After(s, p + TypeAt(s, p), Spaces)) = "("
       THEN Typed(s, p, BracketedThenNumber(s, After(s, p + TypeAt(s, p),
                                                     Spaces)))
       ELSE Typed(s, p, JurisdictionThenNumber(s, After(s, p + TypeAt(s, p),
                                                        Spaces)))

\* EU_TYPED_SUFFIX_PATTERN at position p
TypedSuffixAt(s, p) ==
  IF ~Boundary(s, p) \/ TypeAt(s, p) = 0 THEN NoAct
  ELSE Typed(s, p, Suffixed(s, NumberAt(s, After(s, p + TypeAt(s, p), Spaces),
                                        "/")))

\* EU_GENERIC_PREFIX_PATTERN at position p
GenericPrefixAt(s, p) ==
  IF ~Boundary(s, p) THEN NoAct ELSE JurisdictionThenNumber(s, p)

\* EU_GENERIC_SUFFIX_PATTERN at position p
GenericSuffixAt(s, p) ==
  IF ~Boundary(s, p) THEN NoAct ELSE Suffixed(s, NumberAt(s, p, "/"))

\* (?<celex>3\d{4}[A-Z]\d{4})\b at position p: the year, the type marker
\* and the number of the CELEX number
CelexNumberAt(s, p) ==
  IF /\ CharAt(s, p) = "3"
     /\ \A k \in {1, 2, 3, 4, 6, 7, 8, 9} : CharAt(s, p + k) \in Digits
     /\ CharAt(s, p + 5) \in Letters
     /\ Boundary(s, p + 10)
  THEN [NoAct EXCEPT !.ok = TRUE, !.pos = p + 10,
                     !.jurisdiction = <<"E", "U">>,
                     !.year = SubSeq(s, p + 1, p + 4),
                     !.type = <<UpperOf(s[p + 5])>>,
                     !.number = SubSeq(s, p + 6, p + 9)]
  ELSE NoAct

\* CELEX_PATTERN at position p
CelexAt(s, p) ==
  IF ~Boundary(s, p) THEN NoAct
  ELSE IF /\ WordAt(s, p, <<"c", "e", "l", "e", "x">>)
          /\ CelexNumberAt(s, After(s, p + 5, {":", " "})).ok
       THEN CelexNumberAt(s, After(s, p + 5, {":", " "}))
       ELSE CelexNumberAt(s, p)

EuPatterns == <<"celex", "typed prefix", "typed suffix", "generic prefix",
                "generic suffix">>

PatternAt(pattern, s, p) ==
  CASE pattern = "celex"          -> CelexAt(s, p)
    [] pattern = "typed prefix"   -> TypedPrefixAt(s, p)
    [] pattern = "typed suffix"   -> TypedSuffixAt(s, p)
    [] pattern = "generic prefix" -> GenericPrefixAt(s, p)
    [] pattern = "generic suffix" -> GenericSuffixAt(s, p)

\* the confidence addAct is given for a pattern, in hundredths
Confidence(pattern) ==
  CASE pattern = "celex"          -> 99
    [] pattern = "typed prefix"   -> 95
    [] pattern = "typed suffix"   -> 94
    [] pattern = "generic prefix" -> 90
    [] pattern = "generic suffix" -> 89

\* Number.parseInt(numberToken, 10) written out: no leading zeros
RECURSIVE StripZeros(_)
StripZeros(digits) ==
  IF Len(digits) > 1 /\ Head(digits) = "0" THEN StripZeros(Tail(digits))
  ELSE digits

\* adapters/de.ts normalizeEuIdParts
normalizeEuIdParts(jurisdiction, year, number) ==
  normalizeCode(Trim(jurisdiction)) \o <<" ">> \o year \o <<"/">>
  \o StripZeros(number)

\* the whole of s is a match that starts at its first character
Whole_(s, act) == act.ok /\ act.pos = Len(s) + 1

\* /^CELEX[:\s]*/i removed
WithoutCelexPrefix(s) ==
  IF WordAt(s, 1, <<"c", "e", "l", "e", "x">>)
  THEN Drop(s, After(s, 6, {":", " "}) - 1)
  ELSE s

IdOf(act) == normalizeEuIdParts(act.jurisdiction, act.year, act.number)

\* normalizeEuIdentifier of a text in upper case without spaces around it
NormalizedIdentifier(s) ==
  IF Whole_(WithoutCelexPrefix(s), CelexNumberAt(WithoutCelexPrefix(s), 1))
  THEN IdOf(CelexNumberAt(WithoutCelexPrefix(s), 1))
  ELSE IF Whole_(s, JurisdictionThenNumber(s, 1))
       THEN IdOf(JurisdictionThenNumber(s, 1))
       ELSE IF Whole_(s, Suffixed(s, NumberAt(s, 1, "/")))
            THEN IdOf(Suffixed(s, NumberAt(s, 1, "/")))
            ELSE s

\* adapters/de.ts normalizeEuIdentifier
normalizeEuIdentifier(input) ==
  NormalizedIdentifier(normalizeCode(collapseWhitespace(input)))

\* adapters/de.ts normalizeEuType
normalizeEuType(value) ==
  IF ToLowerCase(Trim(value)) \in {<<"r", "i", "c", "h", "t", "l", "i", "n", "i", "e">>,
                                   <<"d", "i", "r", "e", "c", "t", "i", "v", "e">>}
  THEN "directive"
  ELSE IF ToLowerCase(Trim(value)) \in {<<"v", "e", "r", "o", "r", "d", "n", "u", "n", "g">>,
                                        <<"r", "e", "g", "u", "l", "a", "t", "i", "o", "n">>}
       THEN "regulation"
       ELSE "act"

\* adapters/de.ts parseCelex: the type of a CELEX type marker
CelexType(typeMarker) ==
  IF typeMarker = <<"R">> THEN "regulation"
  ELSE IF typeMarker = <<"L">> THEN "directive"
  ELSE IF typeMarker = <<"D">> THEN "decision"
  ELSE "act"

\* the type addAct is given for a match of a pattern
TypeOfAct(pattern, act) ==
  CASE pattern = "celex" -> CelexType(act.type)
    [] pattern \in {"typed prefix", "typed suffix"} -> normalizeEuType(act.type)
    [] OTHER -> "act"

CONTEXT_RADIUS == 90

\* adapters/de.ts buildContextSnippet; index counts from 0
buildContextSnippet(content, index, length) ==
  collapseWhitespace(
    SubSeq(content,
           (IF index - CONTEXT_RADIUS < 0 THEN 0 ELSE index - CONTEXT_RADIUS) + 1,
           Min(Len(content), index + length + CONTEXT_RADIUS)))

\* what addAct is called with for a match of a pattern that starts at
\* position p
Detected(pattern, s, p, act) ==
  [euId |-> normalizeEuIdentifier(IdOf(act)),
   euType |-> TypeOfAct(pattern, act),
   confidence |-> Confidence(pattern),
   contextSnippet |-> buildContextSnippet(s, p - 1, act.pos - p)]

\* trimmed.matchAll(pattern) from position p on: the matches from left to
\* right, none overlapping another
Least(positions) == CHOOSE q \in positions : \A r \in positions : q <= r

\* where the first match from position p on starts; past the end when
\* there is none
NextStart(pattern, s, p) ==
  Least({q \in p..Len(s) : PatternAt(pattern, s, q).ok} \cup {Len(s) + 1})

RECURSIVE matchFrom(_, _, _)
RECURSIVE MatchedAt(_, _, _, _)
\* the match act that starts at q, and the matches after it
MatchedAt(pattern, s, q, act) ==
  <<Detected(pattern, s, q, act)>>
  \o matchFrom(pattern, s, NextStart(pattern, s, act.pos))

matchFrom(pattern, s, q) ==
  IF q > Len(s) THEN <<>>
  ELSE MatchedAt(pattern, s, q, PatternAt(pattern, s, q))

matchAll(pattern, s, p) == matchFrom(pattern, s, NextStart(pattern, s, p))

\* the calls of addAct in their order
RECURSIVE DetectedFrom(_, _)
DetectedFrom(s, i) ==
  IF i > Len(EuPatterns) THEN <<>>
  ELSE matchAll(EuPatterns[i], s, 1) \o DetectedFrom(s, i + 1)

AllDetected(s) == DetectedFrom(s, 1)

\* `${normalizedId}|${euType.toLowerCase()}`
SameKey(a, b) == a.euId = b.euId /\ a.euType = b.euType

\* addAct: found after the calls, in the order the keys were first set
RECURSIVE addAct(_)
addAct(calls) ==
  IF calls = <<>> THEN <<>>
  ELSE LET found == addAct(SubSeq(calls, 1, Len(calls) - 1))
           act   == calls[Len(calls)]
       IN  IF \E i \in DOMAIN found : SameKey(found[i], act)
           THEN [i \in DOMAIN found |->
                   IF SameKey(found[i], act)
                      /\ found[i].confidence < act.confidence
                   THEN act ELSE found[i]]
           ELSE Append(found, act)

\* [...found.values()].sort(...): by confidence, the greater first, then
\* by euId; acts that compare equal keep their order
SortActs(found) ==
  LET order == SortSeq([i \in DOMAIN found |-> i],
                 LAMBDA a, b :
                   \/ found[a].confidence > found[b].confidence
                   \/ /\ found[a].confidence = found[b].confidence
                      /\ BinLess(found[a].euId, found[b].euId)
                   \/ /\ found[a].confidence = found[b].confidence
                      /\ found[a].euId = found[b].euId
                      /\ a < b)
  IN  [i \in DOMAIN found |-> found[order[i]]]

extractEuActsFromText(content) ==
  SortActs(addAct(AllDetected(collapseWhitespace(content))))

(***************************************************************************)
(* The Germany adapter's EU basis (adapters/de.ts getEuBasis).  The        *)
(* corpus rows have no metadata_json and no source_url.                    *)
(***************************************************************************)
EU_DEFAULT_LIMIT  == 40
EU_MAX_LIMIT      == 200
EU_MAX_REFERENCES == 5000

\* [title, citation ?? "", textSnippet ?? "", ""].filter(Boolean).join(" ")
buildDocumentEuSearchText(document) ==
  JoinWithSpace(SelectSeq(<<document.title, document.citation,
                            document.textSnippet>>,
                          LAMBDA part : part # <<>>))

\* document.id.indexOf(":"), counted from 1; 0 when there is none
IndexOfColon(id) ==
  IF \E i \in DOMAIN id : id[i] = ":"
  THEN CHOOSE i \in DOMAIN id : id[i] = ":" /\ \A j \in 1..(i - 1) : id[j] # ":"
  ELSE 0

\* adapters/de.ts resolveSourceStatuteId
resolveSourceStatuteId(document) ==
  IF document.kind \in {"statute", "regulation"} /\ IndexOfColon(document.id) > 1
  THEN SubSeq(document.id, 1, IndexOfColon(document.id) - 1)
  ELSE Null

EuReference(document, euAct) ==
  [euId |-> euAct.euId, euType |-> euAct.euType, sourceKind |-> document.kind,
   sourceId |-> document.id,
   sourceStatuteId |-> resolveSourceStatuteId(document),
   sourceCitation |-> document.citation, sourceTitle |-> document.title,
   contextSnippet |-> euAct.contextSnippet, confidence |-> euAct.confidence]

\* the references of one document: of the acts with one identifier the
\* first is pushed (key: identifier and document id)
RECURSIVE DocumentReferences(_, _)
DocumentReferences(document, extracted) ==
  IF extracted = <<>> THEN <<>>
  ELSE LET init == DocumentReferences(document,
                                      SubSeq(extracted, 1, Len(extracted) - 1))
           last == extracted[Len(extracted)]
       IN  IF \E i \in DOMAIN init :
                normalizeEuIdentifier(init[i].euId)
                  = normalizeEuIdentifier(last.euId)
           THEN init
           ELSE Append(init, EuReference(document, last))

RECURSIVE AllReferences(_)
AllReferences(documents) ==
  IF documents = <<>> THEN <<>>
  ELSE DocumentReferences(Head(documents),
         extractEuActsFromText(buildDocumentEuSearchText(Head(documents))))
       \o AllReferences(Tail(documents))

\* adapters/de.ts extractEuReferencesFromDocuments, of documents with
\* distinct ids
extractEuReferencesFromDocuments(documents, maxReferences) ==
  Limit(AllReferences(documents),
        de_clampLimit(Whole(maxReferences), MIN_LIMIT, EU_MAX_REFERENCES))

\* the documents pushed for request.documentId
ByDocumentId(st, documentId) ==
  IF documentId = <<>> THEN NotRead
  ELSE [available |-> getGermanDocumentByAnyId(st, documentId).available,
        documents |-> getGermanDocumentByAnyId(st, documentId).documents
                      \o Limit(getDocumentFromMemory(GERMAN_LEGISLATION,
                                                     documentId), 1)]

EuBasisCollection(byId, byStatute, byCitation, fallback, maxDocuments) ==
  [documents |-> Limit(uniqueDocuments(
                         byId.documents \o byStatute.documents
                         \o (IF byCitation.available THEN byCitation.documents
                             ELSE fallback.documents)),
                       maxDocuments),
   dbUnavailable |-> ~byId.available \/ ~byStatute.available
                     \/ ~byCitation.available]

\* adapters/de.ts collectEuBasisDocuments
collectEuBasisDocuments(st, documentId, statuteId, citation, maxDocuments) ==
  EuBasisCollection(
    ByDocumentId(st, documentId),
    IF statuteId # <<>>
    THEN getGermanLawDocumentsByStatuteId(st, statuteId, Whole(maxDocuments))
    ELSE NotRead,
    IF citation # <<>>
    THEN getGermanLawDocumentsByCitation(st, citation, Whole(maxDocuments))
    ELSE NotRead,
    searchDocumentsInMemory(GERMAN_LEGISLATION,
      SeedQuery(citation, Min(maxDocuments, SEED_FALLBACK_LIMIT))),
    maxDocuments)

EuBasis(references, limit) ==
  [kind |-> "eu basis", references |-> Limit(references, limit),
   total |-> Len(references)]

EuBasisWithLimit(st, request, limit) ==
  EuBasis(extractEuReferencesFromDocuments(
            collectEuBasisDocuments(st, TrimmedOrNull(request["documentId"]),
                                    TrimmedOrNull(request["statuteId"]),
                                    TrimmedOrNull(request["citation"]),
                                    limit * 8).documents,
            limit * 8),
          limit)

germany_getEuBasis(st, request) ==
  EuBasisWithLimit(st, request,
                   de_clampLimit(OrLimit(request["limit"], EU_DEFAULT_LIMIT),
                                 MIN_LIMIT, EU_MAX_LIMIT))

(***************************************************************************)
(* The Germany adapter's ingestion (adapters/de.ts runIngestion).  An      *)
(* ingestion script is a sub-process; scripts says, for each source, what  *)
(* its script does when it is run.  startedAt and finishedAt, the times of *)
(* the clock, are left out of the result.                                  *)
(***************************************************************************)
GESETZE == <<"g", "e", "s", "e", "t", "z", "e", "-", "i", "m", "-", "i", "n",
    "t", "e", "r", "n", "e", "t">>

RECHTSPRECHUNG ==
  <<"r", "e", "c", "h", "t", "s", "p", "r", "e", "c", "h", "u", "n", "g",
    "-", "i", "m", "-", "i", "n", "t", "e", "r", "n", "e", "t">>

DIP == <<"d", "i", "p", "-", "b", "u", "n", "d", "e", "s", "t", "a", "g">>

ALL == <<"a", "l", "l">>

INGESTION_SOURCES == <<GESETZE, RECHTSPRECHUNG, DIP>>

normalizeSourceId(sourceId) ==
  IF sourceId = Undefined \/ sourceId.s = <<>> THEN GESETZE
  ELSE IF ToLowerCase(Trim(sourceId.s)) \in {ALL, GESETZE, RECHTSPRECHUNG, DIP}
       THEN ToLowerCase(Trim(sourceId.s))
       ELSE GESETZE

\* requestedSource === "all" ? INGESTION_SOURCES : [requestedSource]
SourcesOf(requestedSource) ==
  IF requestedSource = ALL THEN INGESTION_SOURCES ELSE <<requestedSource>>

\* IngestionScriptReport: the counts a script prints, undefined when absent
ReportKeys ==
  {"selected_laws", "selected_cases", "selected_documents",
   "ingested_sections", "skipped_sections", "ingested_count", "skipped_count",
   "ingested_cases", "skipped_cases", "ingested_documents",
   "skipped_documents"}

Report(fields) ==
  [k \in ReportKeys |-> IF k \in DOMAIN fields THEN fields[k] ELSE Undefined]

\* executeIngestionScript rejects: python3 or the script cannot be started,
\* or the script exits with an error
Rejected == [failed |-> TRUE, report |-> Report(<<>>)]

\* executeIngestionScript resolves with the report on the last line of the
\* output; with {} when nothing is printed or the line is no JSON
Resolved(fields) == [failed |-> FALSE, report |-> Report(fields)]

executeIngestionScript(py, source) == py[source]

\* a ?? b ?? ... ?? fallback
FirstDefined(values, fallback) ==
  IF \A i \in DOMAIN values : values[i] = Undefined THEN fallback
  ELSE values[CHOOSE i \in DOMAIN values :
                /\ values[i] # Undefined
                /\ \A j \in 1..(i - 1) : values[j] = Undefined]

extractIngestedCount(report) ==
  FirstDefined(<<report.ingested_count, report.ingested_sections,
                 report.ingested_cases, report.ingested_documents>>, Whole(0))

extractDryRunSelectedCount(report) ==
  FirstDefined(<<report.selected_laws, report.selected_cases,
                 report.selected_documents>>, Whole(0))

extractSkippedCount(report) ==
  FirstDefined(<<report.skipped_count, report.skipped_sections,
                 report.skipped_cases, report.skipped_documents>>, Whole(0))

\* SELECT COUNT(*) of a table; null (here undefined) when the read is
\* unavailable
CountOf(st, tableName, rows) ==
  IF ~getDb(st) \/ ~tableExists(st, tableName) THEN Undefined
  ELSE Whole(Len(rows))

getGermanLawDocumentCount(st) == CountOf(st, "law_documents", st.law)

getGermanCaseLawDocumentCount(st) ==
  CountOf(st, "case_law_documents", st.cases)

getGermanPreparatoryWorkCount(st) ==
  CountOf(st, "preparatory_works", st.prep)

getCurrentSourceCount(st, sourceId) ==
  IF sourceId = GESETZE
  THEN FirstDefined(<<getGermanLawDocumentCount(st)>>, Whole(0))
  ELSE IF sourceId = RECHTSPRECHUNG
       THEN FirstDefined(<<getGermanCaseLawDocumentCount(st)>>, Whole(0))
       ELSE FirstDefined(<<getGermanPreparatoryWorkCount(st)>>, Whole(0))

Totals(ingested, skipped, successful) ==
  [totalIngested |-> ingested, totalSkipped |-> skipped,
   hadSuccessfulRun |-> successful]

\* the body of the loop for one source, run being what its script did
AfterRun(st, totals, source, dryRun, run) ==
  IF run.failed
  THEN Totals(totals.totalIngested,
              IF dryRun
              THEN totals.totalSkipped + getCurrentSourceCount(st, source).n
              ELSE totals.totalSkipped,
              totals.hadSuccessfulRun)
  ELSE IF dryRun
       THEN Totals(totals.totalIngested,
                   totals.totalSkipped
                   + (IF extractDryRunSelectedCount(run.report).n > 0
                      THEN extractDryRunSelectedCount(run.report).n
                      ELSE getCurrentSourceCount(st, source).n),
                   TRUE)
       ELSE Totals(totals.totalIngested + extractIngestedCount(run.report).n,
                   totals.totalSkipped + extractSkippedCount(run.report).n,
                   TRUE)

\* for (const source of sources)
RECURSIVE RunSources(_, _, _, _)
RunSources(st, py, sources, dryRun) ==
  IF sources = <<>> THEN Totals(0, 0, FALSE)
  ELSE AfterRun(st,
                RunSources(st, py, SubSeq(sources, 1, Len(sources) - 1), dryRun),
                sources[Len(sources)], dryRun,
                executeIngestionScript(py, sources[Len(sources)]))

IngestionResult(sourceId, dryRun, ingested, skipped) ==
  [kind |-> "ingestion", sourceId |-> sourceId, dryRun |-> dryRun,
   ingestedCount |-> Num(ingested), skippedCount |-> Num(skipped)]

\* what follows the loop
IngestionOf(st, totals, sourceId, dryRun) ==
  IngestionResult(
    IF sourceId = Undefined THEN GESETZE ELSE sourceId.s, dryRun,
    totals.totalIngested,
    IF ~totals.hadSuccessfulRun /\ ~dryRun
    THEN totals.totalSkipped
         + FirstDefined(<<getGermanLawDocumentCount(st)>>, Whole(0)).n
    ELSE totals.totalSkipped)

\* request.dryRun ?? false
OrFalse(flag) == IF flag = Undefined THEN FALSE ELSE flag.b

germany_runIngestion(st, py, sourceId, dryRun) ==
  IngestionOf(st,
              RunSources(st, py, SourcesOf(normalizeSourceId(sourceId)),
                         OrFalse(dryRun)),
              sourceId, OrFalse(dryRun))

(***************************************************************************)
(* capabilities.ts: the runtime Capability Set, detected from the tables   *)
(***************************************************************************)
CAPABILITY_TABLES ==
  [core_legislation       |-> "law_documents",
   basic_case_law         |-> "case_law_documents",
   eu_references          |-> "eu_references",
   expanded_case_law      |-> "case_law_documents_full",
   full_preparatory_works |-> "preparatory_works_full",
   agency_guidance        |-> "agency_guidance"]

detectCapabilities(st) ==
  {capability \in DOMAIN CAPABILITY_TABLES :
     tableExists(st, CAPABILITY_TABLES[capability])}

\* german-law-db.ts getCapabilities: empty when the database cannot be opened
getCapabilities(st) == IF getDb(st) THEN detectCapabilities(st) ELSE {}

\* the metadata reported when the database has none
DefaultMetadata ==
  [tier |-> "unknown", schema_version |-> "1", built_at |-> "unknown",
   builder |-> "unknown"]

\* map.get(key) ?? fallback over the rows of db_metadata
MetadataOr(rows, key, fallback) ==
  IF key \in DOMAIN rows THEN rows[key] ELSE fallback

\* readDbMetadata: the rows of db_metadata over the defaults, with a tier
\* that is neither free nor professional read as unknown
readDbMetadata(st) ==
  IF ~tableExists(st, "db_metadata") THEN DefaultMetadata
  ELSE [tier |-> IF MetadataOr(st.metadata, "tier", "unknown")
                      \in {"free", "professional"}
                 THEN st.metadata["tier"] ELSE "unknown",
        schema_version |-> MetadataOr(st.metadata, "schema_version",
                                      DefaultMetadata.schema_version),
        built_at |-> MetadataOr(st.metadata, "built_at",
                                DefaultMetadata.built_at),
        builder |-> MetadataOr(st.metadata, "builder",
                               DefaultMetadata.builder)]

(***************************************************************************)
(* german-law-db.ts: the process-wide handle and its caches.  The handle   *)
(* is known by the path it was opened at; NoPath stands for null and for   *)
(* the empty resolvedPathCache.                                            *)
(***************************************************************************)
NotSet == ""
NoPath == ""
DEFAULT_DB_PATH == "data/database.db"

\* a module variable that is null, or holds a value
NoCapabilities == [isNull |-> TRUE, value |-> {}]
NoMetadata     == [isNull |-> TRUE, value |-> DefaultMetadata]
Holding(value) == [isNull |-> FALSE, value |-> value]

\* the module variables as the module is loaded
NotOpened ==
  [dbInstance |-> NoPath, dbAvailabilityChecked |-> FALSE,
   dbAvailable |-> FALSE, resolvedPathCache |-> NoPath,
   dbCapabilities |-> NoCapabilities, dbMetadata |-> NoMetadata]

\* process.env[DB_ENV_VAR]?.trim() || DEFAULT_DB_PATH
resolveGermanLawDatabasePath(e) == IF e = NotSet THEN DEFAULT_DB_PATH ELSE e

\* getDb over module variables d, with st the file at the resolved path:
\* the handle returned and the module variables it leaves
GetDb(d, e, st) ==
  LET resolvedPath == resolveGermanLawDatabasePath(e) IN
  IF d.dbAvailabilityChecked /\ resolvedPath = d.resolvedPathCache
  THEN [value |-> IF d.dbAvailable THEN d.dbInstance ELSE NoPath, db |-> d]
  ELSE IF ~st.file
  THEN [value |-> NoPath,
        db |-> [d EXCEPT !.dbInstance = NoPath,
                         !.resolvedPathCache = resolvedPath,
                         !.dbAvailabilityChecked = TRUE,
                         !.dbAvailable = FALSE]]
  ELSE [value |-> resolvedPath,
        db |-> [d EXCEPT !.dbInstance = resolvedPath,
                         !.resolvedPathCache = resolvedPath,
                         !.dbAvailabilityChecked = TRUE,
                         !.dbAvailable = TRUE,
                         !.dbCapabilities = Holding(detectCapabilities(st)),
                         !.dbMetadata = Holding(readDbMetadata(st))]]

\* getCapabilities over module variables d
GetCapabilities(d, e, st) ==
  LET after == IF d.dbCapabilities.isNull THEN GetDb(d, e, st).db ELSE d IN
  [value |-> IF after.dbCapabilities.isNull THEN {}
             ELSE after.dbCapabilities.value,
   db |-> after]

\* getMetadata over module variables d
GetMetadata(d, e, st) ==
  LET after == IF d.dbMetadata.isNull THEN GetDb(d, e, st).db ELSE d IN
  [value |-> IF after.dbMetadata.isNull THEN DefaultMetadata
             ELSE after.dbMetadata.value,
   db |-> after]

resetGermanLawDatabaseCache(d) ==
  [d EXCEPT !.dbInstance = NoPath, !.dbAvailabilityChecked = FALSE,
            !.dbAvailable = FALSE, !.resolvedPathCache = NoPath]

\* the module variables once the file at the default path has been looked
\* for and, when it is there, opened
Opened(st) == GetDb(NotOpened, NotSet, st).db

\* api/mcp before any request: no database under /tmp, nothing downloading
\* dbReady; whether TMP_DB and TMP_DB_TMP exist; the requests with a write
\* stream open on TMP_DB_TMP, and on the file after it was renamed; whether
\* TMP_DB_TMP was truncated while written; whether TMP_DB is not the work
\* of one stream alone; the renames to TMP_DB made
NotDeployed ==
  [dbReady |-> FALSE, tmpDb |-> FALSE, tmpFile |-> FALSE, writers |-> {},
   renamed |-> {}, mixed |-> FALSE, damaged |-> FALSE, renames |-> 0]

(***************************************************************************)
(* Tool handlers (LawMcpShell).  A handler's run is the record of whether  *)
(* it threw, what it returned or threw, and the adapter operations it      *)
(* invoked.  An operation of an adapter other than Germany's is opaque: it *)
(* returns or throws, as oc says.  The Germany adapter's operations are    *)
(* computed, except the EU searches and the compliance validation, which   *)
(* return an opaque value.                                                 *)
(***************************************************************************)
Outcomes == {"return", "throw"}

Raise(e) == [threw |-> TRUE, data |-> NoData, error |-> e, ops |-> <<>>]

Returned(data, ops) ==
  [threw |-> FALSE, data |-> data, error |-> NoError, ops |-> ops]

OpaqueData(code) == [NoData EXCEPT !.kind = "opaque", !.country = code]

Opaque == OpaqueData(germanyAdapter.code)

\* adapter.<op>!(request): germany is what the Germany adapter's op returns
Invoke(adapter, op, oc, germany) ==
  IF adapter.impl = "germany"
  THEN Returned(germany, <<[adapter |-> adapter.code, op |-> op]>>)
  ELSE IF oc = "throw"
       THEN [Raise(PlainError(<<"adapter failure">>)) EXCEPT
               !.ops = <<[adapter |-> adapter.code, op |-> op]>>]
       ELSE Returned(OpaqueData(adapter.code),
                     <<[adapter |-> adapter.code, op |-> op]>>)

\* the request object a handler builds: the listed keys that are defined
Pick(args, keys) == [k \in ArgKeys |-> IF k \in keys THEN args[k] ELSE Undefined]

\* statements run in order: the first that throws ends the handler
FirstThrow(steps) ==
  steps[CHOOSE i \in DOMAIN steps :
          steps[i].threw /\ \A j \in 1..(i - 1) : ~steps[j].threw].error

\* a handler: its statements, the first of which resolves the adapter, and
\* then the adapter operation
Steps(steps, op, oc, germany) ==
  IF \E i \in DOMAIN steps : steps[i].threw THEN Raise(FirstThrow(steps))
  ELSE Invoke(steps[1].value, op, oc, germany)

\* if (a === undefined && b === undefined ...) throw
NoSelector(selectors, names) ==
  IF \A i \in DOMAIN selectors : selectors[i].value = Undefined
  THEN Throw(ShellError("invalid_arguments",
                        <<"Expected at least one of: ", names>>))
  ELSE Return(Undefined)

listCountries(reg) ==
  Returned([NoData EXCEPT !.kind = "countries", !.countries = list(reg)], <<>>)

Describe(adapter) ==
  IF adapter.threw THEN Raise(adapter.error)
  ELSE Returned([NoData EXCEPT !.kind = "country",
                               !.country = adapter.value.code,
                               !.tools = countryToolSupport(adapter.value)],
                <<>>)

describeCountry(reg, args) ==
  Describe(Resolve(reg, requireString(args, "country")))

searchDocuments(reg, st, args, oc) ==
  Steps(<<requireDocumentsAdapter(reg, args), requireString(args, "query"),
          optionalNumber(args, "limit")>>,
        "searchDocuments", oc,
        germany_searchDocuments(st, Pick(args, {"query", "limit"})))

getDocument(reg, st, args, oc) ==
  Steps(<<requireDocumentsAdapter(reg, args), requireString(args, "id")>>,
        "getDocument", oc, germany_getDocument(st, args["id"].s))

searchCaseLaw(reg, st, args, oc) ==
  Steps(<<requireCaseLawAdapter(reg, args), requireString(args, "query"),
          optionalNumber(args, "limit"), optionalString(args, "court"),
          optionalString(args, "dateFrom"), optionalString(args, "dateTo")>>,
        "searchCaseLaw", oc,
        germany_searchCaseLaw(st,
          Pick(args, {"query", "limit", "court", "dateFrom", "dateTo"})))

getPreparatoryWorks(reg, st, args, oc) ==
  Steps(<<requirePreparatoryWorksAdapter(reg, args),
          optionalString(args, "citation"), optionalString(args, "statuteId"),
          optionalString(args, "query"), optionalNumber(args, "limit"),
          NoSelector(<<optionalString(args, "citation"),
                       optionalString(args, "statuteId"),
                       optionalString(args, "query")>>,
                     "citation, statuteId, query")>>,
        "getPreparatoryWorks", oc,
        germany_getPreparatoryWorks(st,
          Pick(args, {"citation", "statuteId", "query", "limit"})))

parseCitation(reg, st, args, oc) ==
  Steps(<<requireCitationsAdapter(reg, args), requireString(args, "citation")>>,
        "parseCitation", oc, germany_parseCitation(args["citation"].s))

\* styleValue === undefined ? undefined : parseCitationStyle(styleValue)
StyleOf(styleValue) ==
  IF styleValue.threw \/ styleValue.value = Undefined THEN Return(Undefined)
  ELSE parseCitationStyle(styleValue.value.s)

formatCitation(reg, st, args, oc) ==
  Steps(<<requireFormattingAdapter(reg, args), requireString(args, "citation"),
          optionalString(args, "style"), StyleOf(optionalString(args, "style"))>>,
        "formatCitation", oc,
        germany_formatCitation(
          ("citation" :> args["citation"])
          @@ ("style" :> StyleOf(optionalString(args, "style")).value)))

checkCurrency(reg, st, args, oc) ==
  Steps(<<requireCurrencyAdapter(reg, args), optionalString(args, "citation"),
          optionalString(args, "statuteId"), optionalString(args, "asOfDate"),
          NoSelector(<<optionalString(args, "citation"),
                       optionalString(args, "statuteId")>>,
                     "citation, statuteId")>>,
        "checkCurrency", oc,
        germany_checkCurrency(st, Pick(args, {"citation", "statuteId",
                                              "asOfDate"})))

buildLegalStance(reg, st, args, oc) ==
  Steps(<<requireLegalStanceAdapter(reg, args), requireString(args, "query"),
          optionalNumber(args, "limit"), optionalBoolean(args, "includeCaseLaw"),
          optionalBoolean(args, "includePreparatoryWorks")>>,
        "buildLegalStance", oc,
        germany_buildLegalStance(st,
          Pick(args, {"query", "limit", "includeCaseLaw",
                      "includePreparatoryWorks"})))

getEuBasis(reg, st, args, oc) ==
  Steps(<<requireEuAdapter(reg, args), optionalString(args, "citation"),
          optionalString(args, "statuteId"), optionalString(args, "documentId"),
          optionalNumber(args, "limit"),
          NoSelector(<<optionalString(args, "citation"),
                       optionalString(args, "statuteId"),
                       optionalString(args, "documentId")>>,
                     "citation, statuteId, documentId")>>,
        "getEuBasis", oc,
        germany_getEuBasis(st, Pick(args, {"citation", "statuteId",
                                           "documentId", "limit"})))

searchEuImplementations(reg, st, args, oc) ==
  Steps(<<requireEuAdapter(reg, args), requireString(args, "query"),
          optionalNumber(args, "limit")>>,
        "searchEuImplementations", oc, Opaque)

getNationalImplementations(reg, st, args, oc) ==
  Steps(<<requireEuAdapter(reg, args), requireString(args, "euId"),
          optionalNumber(args, "limit")>>,
        "getNationalImplementations", oc, Opaque)

getProvisionEuBasis(reg, st, args, oc) ==
  Steps(<<requireEuAdapter(reg, args), requireString(args, "documentId"),
          optionalNumber(args, "limit")>>,
        "getProvisionEuBasis", oc, Opaque)

validateEuCompliance(reg, st, args, oc) ==
  Steps(<<requireEuAdapter(reg, args), requireString(args, "euId"),
          optionalString(args, "citation"), optionalString(args, "statuteId")>>,
        "validateEuCompliance", oc, Opaque)

validateCitation(reg, st, args, oc) ==
  Steps(<<requireCitationsAdapter(reg, args), requireString(args, "citation")>>,
        "validateCitation", oc,
        germany_validateCitation(st, args["citation"].s))

runIngestion(reg, st, py, args, oc) ==
  Steps(<<requireIngestionAdapter(reg, args), optionalString(args, "sourceId"),
          optionalBoolean(args, "dryRun")>>,
        "runIngestion", oc,
        germany_runIngestion(st, py, optionalString(args, "sourceId").value,
                             optionalBoolean(args, "dryRun").value))

(***************************************************************************)
(* LawMcpShell.handleToolCall                                              *)
(***************************************************************************)
\* the keys of this.handlers
OwnTools ==
  {"law_list_countries", "law_describe_country", "law_search_documents",
   "law_search_case_law", "law_get_preparatory_works", "law_format_citation",
   "law_check_currency", "law_build_legal_stance", "law_get_eu_basis",
   "law_search_eu_implementations", "law_get_national_implementations",
   "law_get_provision_eu_basis", "law_validate_eu_compliance",
   "law_get_document", "law_parse_citation", "law_validate_citation",
   "law_run_ingestion"}

\* this.handlers is an object literal: a name it does not define is looked
\* up on Object.prototype, where "constructor" is the function Object
InheritedNames == {"constructor"}

\* this.handlers[name](args), for a name the object defines
handlers(name, reg, st, py, args, oc) ==
  CASE name = "law_list_countries"               -> listCountries(reg)
    [] name = "law_describe_country"             -> describeCountry(reg, args)
    [] name = "law_search_documents"             -> searchDocuments(reg, st, args, oc)
    [] name = "law_search_case_law"              -> searchCaseLaw(reg, st, args, oc)
    [] name = "law_get_preparatory_works"        -> getPreparatoryWorks(reg, st, args, oc)
    [] name = "law_format_citation"              -> formatCitation(reg, st, args, oc)
    [] name = "law_check_currency"               -> checkCurrency(reg, st, args, oc)
    [] name = "law_build_legal_stance"           -> buildLegalStance(reg, st, args, oc)
    [] name = "law_get_eu_basis"                 -> getEuBasis(reg, st, args, oc)
    [] name = "law_search_eu_implementations"    -> searchEuImplementations(reg, st, args, oc)
    [] name = "law_get_national_implementations" -> getNationalImplementations(reg, st, args, oc)
    [] name = "law_get_provision_eu_basis"       -> getProvisionEuBasis(reg, st, args, oc)
    [] name = "law_validate_eu_compliance"       -> validateEuCompliance(reg, st, args, oc)
    [] name = "law_get_document"                 -> getDocument(reg, st, args, oc)
    [] name = "law_parse_citation"               -> parseCitation(reg, st, args, oc)
    [] name = "law_validate_citation"            -> validateCitation(reg, st, args, oc)
    [] name = "law_run_ingestion"                -> runIngestion(reg, st, py, args, oc)

\* the body of the try block: look the handler up and await it
TryBlock(reg, st, py, c, oc) ==
  IF c.name \in OwnTools THEN handlers(c.name, reg, st, py, c.arguments, oc)
  ELSE IF c.name \in InheritedNames
       THEN Returned([NoData EXCEPT !.kind = "arguments"], <<>>)  \* Object(args)
       ELSE Raise(TypeError(<<"handler is not a function">>))

NoEnvelopeError == [code |-> "none", message |-> <<>>]

NoResult ==
  [tool |-> "none", ok |-> FALSE, data |-> NoData, error |-> NoEnvelopeError]

Failure(c, normalizedError) ==
  [tool |-> c.name, ok |-> FALSE, data |-> NoData,
   error |-> [code    |-> normalizedError.code,
              message |-> normalizedError.message]]

\* a catch block that handles a ShellError only and rethrows anything else
Settled_rethrow(c, run) ==
  IF ~run.threw
  THEN [envelope  |-> [tool |-> c.name, ok |-> TRUE, data |-> run.data,
                       error |-> NoEnvelopeError],
        rejection |-> NoError, ops |-> run.ops]
  ELSE IF run.error.type # "ShellError"
       THEN [envelope |-> NoResult, rejection |-> run.error, ops |-> run.ops]
       ELSE [envelope |-> Failure(c, run.error), rejection |-> NoError,
             ops |-> run.ops]

\* what the promise settles to after the try block ran: the envelope, or
\* the rejection if any, and the adapter operations invoked on the way
Settled(c, run) ==
  IF ~run.threw
  THEN [envelope  |-> [tool |-> c.name, ok |-> TRUE, data |-> run.data,
                       error |-> NoEnvelopeError],
        rejection |-> NoError, ops |-> run.ops]
  ELSE [envelope |-> Failure(c, toShellError(run.error)), rejection |-> NoError,
        ops |-> run.ops]

handleToolCall(reg, st, py, c, oc) ==
  Settled(c, TryBlock(reg, st, py, c, oc))

(***************************************************************************)
(* Inputs: adapters, corpora and argument values                           *)
(***************************************************************************)
MaxRows == 3

\* an adapter whose operations are opaque
StubAdapter(code, flags, bound) ==
  [code |-> code, capabilities |-> [f \in Flags |-> f \in flags],
   bound |-> bound, impl |-> "stub"]

AdapterPool ==
  {germanyAdapter,
   StubAdapter(<<"S", "E">>, Flags,
               OpNames \ {"getDocument", "searchCaseLaw", "validateEuCompliance"}),
   StubAdapter(<<"s", "e">>, {"documents", "citations"}, OpNames),
   StubAdapter(<<"X", "a">>, Flags, OpNames)}

\* LawMcpShell.fromAdapters(BUILTIN_ADAPTERS)
BuiltinRegistry == register(<<>>, germanyAdapter).value

AllTables ==
  {"law_documents", "law_documents_fts", "case_law_documents",
   "case_law_documents_fts", "preparatory_works", "preparatory_works_fts"}

\* the primary key of the row at each rowid: not in key order
RowIds == <<  <<"d">>, <<"a">>, <<"b">>, <<"e">>, <<"g">>  >>

TablesOf(contents) ==
  UNION {[1..n -> contents] : n \in 0..MaxRows}

LawContents ==
  {[title |-> <<"d", "a">>,      citation |-> <<"§", " ", "1", " ", "B", "G">>],
   [title |-> <<"b", "g">>,      citation |-> Null],
   [title |-> <<"x", "b", "g">>, citation |-> Null]}

LawTable(t) ==
  [i \in DOMAIN t |-> [id |-> RowIds[i], title |-> t[i].title,
                       citation |-> t[i].citation]]

CaseContents ==
  {[ecli |-> <<"e", "1">>, court |-> <<"b", "g">>, title |-> <<"d", "a">>,
    decision_date |-> <<"2", "0", "2", "0", "-", "0", "1", "-", "0", "1">>],
   [ecli |-> Null, court |-> <<"a", "g">>, title |-> <<"b", "g", " ", "d", "a">>,
    decision_date |-> Null],
   [ecli |-> <<"E", "1">>, court |-> <<"b", "g">>, title |-> <<"x", "b", "g">>,
    decision_date |-> <<"2", "0", "2", "1", "-", "0", "1", "-", "0", "1">>]}

CaseTable(t) ==
  [i \in DOMAIN t |-> [id |-> RowIds[i], ecli |-> t[i].ecli, court |-> t[i].court,
                       decision_date |-> t[i].decision_date, title |-> t[i].title]]

PrepContents ==
  {[title |-> <<"d", "a">>, statute_id |-> <<"b", "g">>,
    statute_citation |-> <<"§", " ", "1", " ", "B", "G">>,
    publication_date |-> <<"2", "0", "2", "0", "-", "0", "1", "-", "0", "1">>],
   [title |-> <<"b", "g">>, statute_id |-> Null, statute_citation |-> Null,
    publication_date |-> Null],
   [title |-> <<"d", "a", " ", "x">>, statute_id |-> <<"B", "G">>,
    statute_citation |-> Null,
    publication_date |-> <<"2", "0", "2", "1", "-", "0", "1", "-", "0", "1">>]}

PrepTable(t) ==
  [i \in DOMAIN t |-> [id |-> RowIds[i], title |-> t[i].title,
                       statute_id |-> t[i].statute_id,
                       statute_citation |-> t[i].statute_citation,
                       publication_date |-> t[i].publication_date]]

\* a corpus file: a table that does not exist has no rows
Store(file, tables, bm25, law, cases, prep) ==
  [file |-> file, tables |-> IF file THEN tables ELSE {}, bm25 |-> bm25,
   law   |-> IF file /\ "law_documents" \in tables THEN law ELSE <<>>,
   cases |-> IF file /\ "case_law_documents" \in tables THEN cases ELSE <<>>,
   prep  |-> IF file /\ "preparatory_works" \in tables THEN prep ELSE <<>>]

DefaultLaw   == LawTable(<<CHOOSE c \in LawContents : c.citation # Null>>)
DefaultCases == CaseTable(<<CHOOSE c \in CaseContents : c.ecli = <<"e", "1">> >>)
DefaultPrep  == PrepTable(<<CHOOSE c \in PrepContents : c.statute_citation # Null>>)

DefaultStore ==
  Store(TRUE, AllTables, "rowid", DefaultLaw, DefaultCases, DefaultPrep)

\* corpora in which a table, or the whole file, is absent
AbsentStores ==
  {Store(file, tables, "rowid", DefaultLaw, DefaultCases, DefaultPrep) :
     file \in BOOLEAN,
     tables \in {AllTables \ {"law_documents", "law_documents_fts"},
                 AllTables \ {"case_law_documents", "case_law_documents_fts"},
                 AllTables \ {"preparatory_works", "preparatory_works_fts"}}}

\* the full-text index of a table: ranked in rowid order or in its
\* reverse, failing on every query, or not built
IndexModes(fts) ==
  {[tables |-> AllTables, bm25 |-> "rowid"],
   [tables |-> AllTables, bm25 |-> "reverse"],
   [tables |-> AllTables, bm25 |-> "error"],
   [tables |-> AllTables \ {fts}, bm25 |-> "rowid"]}

LawStores ==
  {Store(TRUE, m.tables, m.bm25, LawTable(t), DefaultCases, DefaultPrep) :
     m \in IndexModes("law_documents_fts"), t \in TablesOf(LawContents)}

CaseStores ==
  {Store(TRUE, m.tables, m.bm25, DefaultLaw, CaseTable(t), DefaultPrep) :
     m \in IndexModes("case_law_documents_fts"), t \in TablesOf(CaseContents)}

PrepStores ==
  {Store(TRUE, m.tables, m.bm25, DefaultLaw, DefaultCases, PrepTable(t)) :
     m \in IndexModes("preparatory_works_fts")
           \cup {[tables |-> AllTables \cup {"preparatory_works_full"},
                  bm25 |-> "rowid"]},
     t \in TablesOf(PrepContents)}

Frac(i) == Num(i * Scale + 1)

CountryValues ==
  {Undefined, Whole(1), Str(<<>>), Str(<<" ">>), Str(<<"d", "e">>),
   Str(<<"D", "E">>), Str(<<" ", "d", "e">>), Str(<<"s", "e">>),
   Str(<<"S", "e">>), Str(<<"x", "a">>), Str(<<"g", "b">>)}

TextValues    == {Undefined, Str(<<" ">>), Str(<<"b", "g">>)}
CitationText  == Str(<<"§", "1", " ", "b", "g">>)
LimitValues   == {Undefined, NaN, Whole(1)}
MaybeText     == {Undefined, Whole(1), Str(<<>>)}

Germany == Str(<<"d", "e">>)

StoreLimits ==
  {Undefined, Frac(0), Whole(0), Whole(0 - 1), Whole(1), Whole(2), Frac(2),
   Whole(MAX_LIMIT + 1), PosInf, NegInf}

(***************************************************************************)
(* The state machine.  A call is handled in one step; the envelope is then *)
(* delivered, after which the next call or registration can be made.       *)
(***************************************************************************)
NoCall   == [name |-> "none", arguments |-> Args(<<>>)]

\* no script can be started, as where python3 is not installed
NoPython == [source \in Range(INGESTION_SOURCES) |-> Rejected]

\* every script runs and prints nothing
Silent == [source \in Range(INGESTION_SOURCES) |-> Resolved(<<>>)]
NoThrown == [by |-> "none", error |-> NoError]

Idle == call = NoCall

\* the promise of handleToolCall settles
Settles(c, settled) ==
  /\ call' = c
  /\ result' = settled.envelope
  /\ invoked' = settled.ops
  /\ thrown' = IF settled.rejection = NoError THEN NoThrown
               ELSE [by |-> "handleToolCall", error |-> settled.rejection]

\* a client calls handleToolCall({name, arguments}); an adapter operation
\* that is opaque returns or throws as oc says
Handle(name, args, oc) ==
  /\ Settles([name |-> name, arguments |-> args],
             handleToolCall(registry, store, scripts,
                            [name |-> name, arguments |-> args], oc))
  /\ UNCHANGED <<registry, store, scripts, env, db, api, requests>>

With(country, rest) == Args(("country" :> country) @@ rest)

\* the calls of a tool with each of the arguments
Calls(name, arguments) ==
  {[name |-> name, arguments |-> args] : args \in arguments}

ListCountries ==
  Calls("law_list_countries",
    {Args(<<>>), With(Germany, <<>>)})

DescribeCountry ==
  Calls("law_describe_country",
    {With(c, <<>>) : c \in CountryValues})

SearchDocuments ==
  Calls("law_search_documents",
    {With(c, ("query" :> q) @@ ("limit" :> l)) :
              c \in CountryValues, q \in TextValues,
              l \in LimitValues \cup {Str(<<"b", "g">>)}})

SearchCaseLaw ==
  Calls("law_search_case_law",
    {With(c, ("query" :> q) @@ ("limit" :> l) @@ ("court" :> k)) :
              c \in CountryValues, q \in TextValues, l \in {Undefined, NaN},
              k \in {Undefined, Whole(1), Str(<<"b", "g">>)}})

GetPreparatoryWorks ==
  Calls("law_get_preparatory_works",
    {With(c, ("citation" :> x) @@ ("statuteId" :> y) @@ ("query" :> q)
                    @@ ("limit" :> l)) :
              c \in CountryValues, x \in MaybeText \cup {Str(<<" ">>), CitationText},
              y \in {Undefined, Str(<<>>)}, q \in {Undefined, Str(<<"d", "a">>)},
              l \in {Undefined, NaN}})

FormatCitation ==
  Calls("law_format_citation",
    {With(c, ("citation" :> x) @@ ("style" :> y)) :
              c \in CountryValues, x \in {Undefined, CitationText},
              y \in {Undefined, Whole(1), Str(<<"s">>), Str(<<" ", "S", " ">>),
                     Str(<<"x">>)}})

CheckCurrency ==
  Calls("law_check_currency",
    {With(c, ("citation" :> x) @@ ("statuteId" :> y)) :
              c \in CountryValues, x \in {Undefined, Str(<<>>), CitationText},
              y \in {Undefined, Whole(1), Str(<<" ">>)}})

BuildLegalStance ==
  Calls("law_build_legal_stance",
    {With(c, ("query" :> q) @@ ("includeCaseLaw" :> b)) :
              c \in CountryValues, q \in TextValues,
              b \in {Undefined, Bool(TRUE), Str(<<"b", "g">>)}})

GetEuBasis ==
  Calls("law_get_eu_basis",
    {With(c, ("citation" :> x) @@ ("statuteId" :> y) @@ ("documentId" :> z)) :
              c \in CountryValues, x \in {Undefined, Str(<<" ">>)},
              y \in {Undefined, Str(<<"a">>)}, z \in {Undefined, Whole(1)}})

SearchEuImplementations ==
  Calls("law_search_eu_implementations",
    {With(c, ("query" :> q) @@ ("limit" :> l)) :
              c \in CountryValues, q \in TextValues, l \in LimitValues})

GetNationalImplementations ==
  Calls("law_get_national_implementations",
    {With(c, "euId" :> x) : c \in CountryValues, x \in TextValues})

GetProvisionEuBasis ==
  Calls("law_get_provision_eu_basis",
    {With(c, "documentId" :> x) : c \in CountryValues, x \in TextValues})

ValidateEuCompliance ==
  Calls("law_validate_eu_compliance",
    {With(c, ("euId" :> x) @@ ("citation" :> y)) :
              c \in CountryValues, x \in TextValues, y \in {Undefined, Whole(1)}})

GetDocument ==
  Calls("law_get_document",
    {With(c, "id" :> x) : c \in CountryValues, x \in TextValues})

ParseCitation ==
  Calls("law_parse_citation",
    {With(c, "citation" :> x) : c \in CountryValues, x \in TextValues})

ValidateCitation ==
  Calls("law_validate_citation",
    {With(c, "citation" :> x) : c \in CountryValues, x \in TextValues})

RunIngestion ==
  Calls("law_run_ingestion",
    {With(c, ("sourceId" :> x) @@ ("dryRun" :> b)) :
              c \in CountryValues, x \in {Undefined, Whole(1), Str(<<"a">>)},
              b \in {Undefined, Bool(TRUE), Str(<<"a">>)}})

\* a name that is no key of this.handlers
OtherNames == {"law_unknown", "law_list_sources", "law_about", "constructor"}

OtherName ==
  UNION {Calls(name, {Args(<<>>), With(Germany, "query" :> Str(<<"b", "g">>))}) :
           name \in OtherNames}

\* a client calls handleToolCall with one of the calls above
HandleToolCall ==
  /\ Idle
  /\ \E oc \in Outcomes :
       \E c \in UNION {ListCountries,
                       DescribeCountry,
                       SearchDocuments,
                       SearchCaseLaw,
                       GetPreparatoryWorks,
                       FormatCitation,
                       CheckCurrency,
                       BuildLegalStance,
                       GetEuBasis,
                       SearchEuImplementations,
                       GetNationalImplementations,
                       GetProvisionEuBasis,
                       ValidateEuCompliance,
                       GetDocument,
                       ParseCitation,
                       ValidateCitation,
                       RunIngestion,
                       OtherName} :
         Handle(c.name, c.arguments, oc)

Registers(r, adapter) ==
  /\ registry' = IF r.threw THEN registry ELSE r.value
  /\ thrown' = IF r.threw
               THEN [by |-> "register", error |-> r.error, adapter |-> adapter]
               ELSE NoThrown

\* AdapterRegistry.register, called on the shell's registry
Register ==
  /\ Idle
  /\ \E adapter \in AdapterPool :
       Registers(register(registry, adapter), adapter)
  /\ UNCHANGED <<store, call, result, invoked, scripts, env, db, api, requests>>

\* the envelope reaches the client
Deliver ==
  /\ ~Idle
  /\ call' = NoCall
  /\ result' = NoResult
  /\ invoked' = <<>>
  /\ thrown' = NoThrown
  /\ UNCHANGED <<registry, store, scripts, env, db, api, requests>>

Init ==
  /\ registry = BuiltinRegistry
  /\ store = DefaultStore
  /\ call = NoCall
  /\ result = NoResult
  /\ invoked = <<>>
  /\ thrown = NoThrown
  /\ scripts \in {NoPython, Silent}
  /\ env = NotSet
  /\ db = Opened(store)
  /\ api = NotDeployed
  /\ requests = <<>>

Next ==
  \/ HandleToolCall
  \/ Register
  \/ Deliver

Spec == Init /\ [][Next]_vars

(***************************************************************************)
(* The searches over every corpus, served by the built-in registry, whose  *)
(* adapter is the Germany adapter: its searches return.                    *)
(***************************************************************************)
StoreQueries ==
  {Str(<<"§", "1", " ", "b", "g">>), Str(<<"b", "g">>),
   Str(<<"d", "a", " ", "b", "g">>), Str(<<"g">>)}

StatuteSearch ==
  /\ Idle
  /\ \E oc \in {"return"} :
       \E args \in
          {With(Germany, ("query" :> q) @@ ("limit" :> l)) :
                       q \in StoreQueries, l \in StoreLimits} :
         Handle("law_search_documents", args, oc)

CaseLawSearch ==
  /\ Idle
  /\ \E oc \in {"return"} :
       \E args \in
          {With(Germany, ("query" :> q) @@ ("limit" :> l) @@ ("court" :> k)
                                   @@ ("dateFrom" :> d)) :
                       q \in {Str(<<"e", "1">>), Str(<<"b", "g">>), Str(<<"d", "a", " ", "b", "g">>)},
                       l \in {Undefined, Whole(1), Frac(1), NegInf},
                       k \in {Undefined, Str(<<"b", "g">>)},
                       d \in {Undefined,
                              Str(<<"2", "0", "2", "0", "-", "0", "6", "-", "0", "1">>)}} :
         Handle("law_search_case_law", args, oc)

PreparatoryWorksSearch ==
  /\ Idle
  /\ \E oc \in {"return"} :
       \E args \in
          {With(Germany, ("citation" :> x) @@ ("statuteId" :> y) @@ ("query" :> q)
                                   @@ ("limit" :> l)) :
                       x \in {Undefined, Str(<<" ">>), CitationText},
                       y \in {Undefined, Str(<<"b", "g">>)},
                       q \in {Undefined, Str(<<"d", "a">>)},
                       l \in {Undefined, Whole(1), NegInf}} :
         Handle("law_get_preparatory_works", args, oc)

InitStore ==
  /\ registry = BuiltinRegistry
  /\ store \in LawStores \cup CaseStores \cup PrepStores \cup AbsentStores
  /\ call = NoCall
  /\ result = NoResult
  /\ invoked = <<>>
  /\ thrown = NoThrown
  /\ scripts = NoPython
  /\ env = NotSet
  /\ db = Opened(store)
  /\ api = NotDeployed
  /\ requests = <<>>

NextStore ==
  \/ StatuteSearch
  \/ CaseLawSearch
  \/ PreparatoryWorksSearch
  \/ Deliver

SpecStore == InitStore /\ [][NextStore]_vars

(***************************************************************************)
(* The statute search alone, over every statute table and index            *)
(***************************************************************************)
InitStatutes ==
  /\ registry = BuiltinRegistry
  /\ store \in LawStores
  /\ call = NoCall
  /\ result = NoResult
  /\ invoked = <<>>
  /\ thrown = NoThrown
  /\ scripts = NoPython
  /\ env = NotSet
  /\ db = Opened(store)
  /\ api = NotDeployed
  /\ requests = <<>>

NextStatutes ==
  \/ StatuteSearch
  \/ Deliver

SpecStatutes == InitStatutes /\ [][NextStatutes]_vars

(***************************************************************************)
(* The three searches over the corpora that lack a table, or the file      *)
(***************************************************************************)
InitAbsent ==
  /\ registry = BuiltinRegistry
  /\ store \in AbsentStores
  /\ call = NoCall
  /\ result = NoResult
  /\ invoked = <<>>
  /\ thrown = NoThrown
  /\ scripts = NoPython
  /\ env = NotSet
  /\ db = Opened(store)
  /\ api = NotDeployed
  /\ requests = <<>>

SpecAbsent == InitAbsent /\ [][NextStore]_vars

(***************************************************************************)
(* The case-law search under its court and date filters                    *)
(***************************************************************************)
June2020 == Str(<<"2", "0", "2", "0", "-", "0", "6", "-", "0", "1">>)
June2021 == Str(<<"2", "0", "2", "1", "-", "0", "6", "-", "0", "1">>)

FilterStores ==
  {Store(TRUE, m.tables, m.bm25, DefaultLaw, CaseTable(t), DefaultPrep) :
     m \in {[tables |-> AllTables, bm25 |-> "rowid"],
            [tables |-> AllTables \ {"case_law_documents_fts"}, bm25 |-> "rowid"]},
     t \in TablesOf(CaseContents)}

FilteredCaseLawSearch ==
  /\ Idle
  /\ \E oc \in Outcomes :
       \E args \in
          {With(Germany, ("query" :> q) @@ ("court" :> k) @@ ("dateFrom" :> f)
                         @@ ("dateTo" :> t)) :
                       q \in {Str(<<"e", "1">>), Str(<<"b", "g">>)},
                       k \in {Undefined, Str(<<" ">>), Str(<<"B", "G", " ">>)},
                       f \in {Undefined, June2020, Str(<<"2", "0", "2", "0">>)},
                       t \in {Undefined, June2020, June2021}} :
         Handle("law_search_case_law", args, oc)

InitFilters ==
  /\ registry = BuiltinRegistry
  /\ store \in FilterStores
  /\ call = NoCall
  /\ result = NoResult
  /\ invoked = <<>>
  /\ thrown = NoThrown
  /\ scripts = NoPython
  /\ env = NotSet
  /\ db = Opened(store)
  /\ api = NotDeployed
  /\ requests = <<>>

NextFilters ==
  \/ FilteredCaseLawSearch
  \/ Deliver

SpecFilters == InitFilters /\ [][NextFilters]_vars

(***************************************************************************)
(* Lookups by id, by statute and by citation over corpora whose three      *)
(* tables hold different ids: d is a statute, a decision and a             *)
(* preparatory work, a and b are in some tables only.                      *)
(***************************************************************************)
LookupRows == 3

LookupCitation(i) ==
  IF i = 1 THEN <<"§", " ", "1", "a", " ", "B", "G">>
  ELSE IF i = 2 THEN Null
  ELSE <<"§", "§", " ", "1", ",", " ", "2", " ", "B", "G">>

LookupDate(i) ==
  IF i = 1 THEN <<"2", "0", "2", "0", "-", "0", "1", "-", "0", "1">>
  ELSE IF i = 2 THEN Null
  ELSE <<"2", "0", "2", "1", "-", "0", "1", "-", "0", "1">>

LookupLaw(n) ==
  [i \in 1..n |-> [id |-> RowIds[i], statute_id |-> <<"B", "g">>,
                   title |-> <<"b", "g">>, citation |-> LookupCitation(i),
                   effective_date |-> LookupDate(i), text_snippet |-> Null]]

LookupCases(n) ==
  [i \in 1..n |-> [id |-> RowIds[i], ecli |-> Null, court |-> <<"b", "g">>,
                   decision_date |-> Null, title |-> <<"d", "a">>]]

LookupPrep(n) ==
  [i \in 1..n |-> [id |-> RowIds[i], title |-> <<"d", "a">>,
                   statute_id |-> Null, statute_citation |-> Null,
                   publication_date |-> Null]]

BaseTables == {"law_documents", "case_law_documents", "preparatory_works"}

LookupStores ==
  {Store(file, tables, "rowid", LookupLaw(l), LookupCases(c), LookupPrep(w)) :
     file \in BOOLEAN, tables \in SUBSET BaseTables, l \in 0..LookupRows,
     c \in {0, LookupRows - 1}, w \in {0, LookupRows}}

SeedId == Str(GERMAN_LEGISLATION[1].id)

LookupIds ==
  {Str(<<"d">>), Str(<<"a">>), Str(<<"b">>), Str(<<"e">>), Str(<<"D">>), SeedId}

DocumentLookup ==
  /\ Idle
  /\ \E oc \in Outcomes :
       \E args \in {With(Germany, "id" :> x) : x \in LookupIds} :
         Handle("law_get_document", args, oc)

LookupCitations ==
  {Str(<<"§", " ", "1", "a", " ", "B", "G">>),
   Str(<<"§", " ", "1", "A", " ", "A", "b", "s", ".", " ", "2", " ", "B",
         "G">>),
   Str(<<"§", " ", "2", " ", "B", "G">>),
   Str(<<"1", " ", "B", "G">>),
   Str(<<"§", "§", " ", "1", ",", " ", "2", " ", "b", "g">>),
   Str(<<"A", "r", "t", ".", " ", "1", " ", "B", "G">>),
   Str(<<" ">>)}

CitationValidation ==
  /\ Idle
  /\ \E oc \in Outcomes :
       \E args \in {With(Germany, "citation" :> x) : x \in LookupCitations} :
         Handle("law_validate_citation", args, oc)

LookupStatuteIds ==
  {Undefined,
   Str(<<" ">>),
   Str(<<"b", "G", " ">>),
   Str(<<"x">>)}

CurrencyCitations ==
  {Undefined,
   Str(<<" ">>),
   Str(<<"§", " ", "1", "A", " ", "B", "G">>),
   Str(<<"§", "§", " ", "1", ",", " ", "2", " ", "b", "g">>),
   Str(<<"§", " ", "8", "2", "3", " ", "A", "b", "s", ".", " ", "1", " ",
         "B", "G", "B">>),
   Str(<<"§", " ", "9", " ", "B", "G">>)}

AsOfDates ==
  {Undefined,
   Str(<<"2", "0", "2", "0", "-", "0", "6", "-", "0", "1">>),
   Str(<<"2", "0", "1", "9", "-", "0", "1", "-", "0", "1">>),
   Str(<<" ", "2", "0", "2", "2", "-", "0", "1", "-", "0", "1">>),
   Str(<<"2", "0", "1", "9">>)}

CurrencyCheck ==
  /\ Idle
  /\ \E oc \in Outcomes :
       \E args \in
          {With(Germany, ("statuteId" :> y) @@ ("citation" :> x)
                         @@ ("asOfDate" :> d)) :
             y \in LookupStatuteIds, x \in CurrencyCitations, d \in AsOfDates} :
         Handle("law_check_currency", args, oc)

InitLookup ==
  /\ registry = BuiltinRegistry
  /\ store \in LookupStores
  /\ call = NoCall
  /\ result = NoResult
  /\ invoked = <<>>
  /\ thrown = NoThrown
  /\ scripts = NoPython
  /\ env = NotSet
  /\ db = Opened(store)
  /\ api = NotDeployed
  /\ requests = <<>>

NextLookup ==
  \/ DocumentLookup
  \/ CitationValidation
  \/ CurrencyCheck
  \/ Deliver

SpecLookup == InitLookup /\ [][NextLookup]_vars

(***************************************************************************)
(* The citation operations over citations written in many ways: a marker   *)
(* or an article keyword, a section, subdivisions and a code, with and     *)
(* without the spaces and dots of the normalized form.                     *)
(***************************************************************************)
CitationHeads ==
  {<<"§">>,
   <<"§", "§">>,
   <<"§", " ">>,
   <<"A", "r", "t", ".">>,
   <<"a", "r", "t", "i", "k", "e", "l", " ">>}

CitationSections ==
  {<<"1">>,
   <<"1", "2", "a">>,
   <<"1", " ", "b", "i", "s", " ", "3">>,
   <<"1", "b", "i", "s", "3">>,
   <<"1", "-", "2">>,
   <<"1", " ", ",", " ", "2">>}

CitationSubdivisions ==
  {<<>>,
   <<" ", "A", "b", "s", ".", " ", "2">>,
   <<"A", "b", "s", "a", "t", "z", "2", " ", "S", ".", "1">>,
   <<" ", "S", "a", "t", "z", " ", "1", " ", "N", "r", " ", "3", " ", "B",
      "u", "c", "h", "s", "t", "a", "b", "e", " ", "B">>,
   <<"s", "2">>}

CitationCodes ==
  {<<" ", "B", "G">>,
   <<"b", "g">>,
   <<" ", "x">>,
   <<" ", "S", "1">>}

CitationInputs ==
  {Str(h \o n \o d \o c) : h \in CitationHeads, n \in CitationSections,
                           d \in CitationSubdivisions, c \in CitationCodes}

CitationParse ==
  /\ Idle
  /\ \E oc \in Outcomes :
       \E args \in {With(Germany, "citation" :> x) : x \in CitationInputs} :
         Handle("law_parse_citation", args, oc)

CitationFormat ==
  /\ Idle
  /\ \E oc \in Outcomes :
       \E args \in
          {With(Germany, ("citation" :> x) @@ ("style" :> y)) :
             x \in CitationInputs,
             y \in {Undefined, Str(<<"s">>), Str(<<"P">>)}} :
         Handle("law_format_citation", args, oc)

InitCitations ==
  /\ registry = BuiltinRegistry
  /\ store = DefaultStore
  /\ call = NoCall
  /\ result = NoResult
  /\ invoked = <<>>
  /\ thrown = NoThrown
  /\ scripts = NoPython
  /\ env = NotSet
  /\ db = Opened(store)
  /\ api = NotDeployed
  /\ requests = <<>>

NextCitations ==
  \/ CitationParse
  \/ CitationFormat
  \/ Deliver

SpecCitations == InitCitations /\ [][NextCitations]_vars

(***************************************************************************)
(* The legal stance over corpora of more statutes than its default limit   *)
(***************************************************************************)
DigitChars == <<"0", "1", "2", "3", "4", "5", "6", "7", "8", "9">>

\* String(n) for a natural number
RECURSIVE Decimal(_)
Decimal(n) ==
  IF n < 10 THEN <<DigitChars[n + 1]>>
  ELSE Append(Decimal(n \div 10), DigitChars[(n % 10) + 1])

\* one more statute than the adapter's default limit, all matching "bg"
StanceRows == STANCE_DEFAULT_LIMIT + 1

StanceLaw(n) ==
  [i \in 1..n |-> [id |-> <<"n">> \o Decimal(i), title |-> <<"b", "g">>,
                   citation |-> <<"§", " ">> \o Decimal(i) \o <<" ", "B", "G">>]]

StanceStores ==
  {Store(file, AllTables, "rowid", StanceLaw(n), DefaultCases, DefaultPrep) :
     file \in BOOLEAN, n \in 0..StanceRows}

StanceLimits ==
  {Undefined, Whole(1), Frac(1), Whole(STANCE_DEFAULT_LIMIT),
   Whole(ADVERTISED_DEFAULT_LIMIT), NegInf}

LegalStance ==
  /\ Idle
  /\ \E oc \in Outcomes :
       \E args \in
          {With(Germany, ("query" :> Str(<<"b", "g">>)) @@ ("limit" :> l)
                         @@ ("includeCaseLaw" :> c)
                         @@ ("includePreparatoryWorks" :> w)) :
                       l \in StanceLimits,
                       c \in {Undefined, Bool(TRUE), Bool(FALSE)},
                       w \in {Undefined, Bool(FALSE)}} :
         Handle("law_build_legal_stance", args, oc)

InitStance ==
  /\ registry = BuiltinRegistry
  /\ store \in StanceStores
  /\ call = NoCall
  /\ result = NoResult
  /\ invoked = <<>>
  /\ thrown = NoThrown
  /\ scripts = NoPython
  /\ env = NotSet
  /\ db = Opened(store)
  /\ api = NotDeployed
  /\ requests = <<>>

NextStance ==
  \/ LegalStance
  \/ Deliver

SpecStance == InitStance /\ [][NextStance]_vars

(***************************************************************************)
(* The EU basis over statutes whose text names EU acts: one act in three   *)
(* ways, one act once, one act with and without its type, and no act.      *)
(***************************************************************************)
EuTexts ==
  {<<"R", "i", "c", "h", "t", "l", "i", "n", "i", "e", " ", "(", "E", "U",
      ")", " ", "2", "0", "1", "6", "/", "6", "7", "9", " ", "u", "n", "d",
      " ", "3", "2", "0", "1", "6", "R", "0", "6", "7", "9", " ", "s", "o",
      "w", "i", "e", " ", "2", "0", "1", "6", "/", "6", "7", "9", "/", "E",
      "U">>,
   <<"V", "e", "r", "o", "r", "d", "n", "u", "n", "g", " ", "(", "E", "U",
      ")", " ", "2", "0", "1", "6", "/", "6", "7", "9">>,
   <<"E", "G", " ", "9", "5", "/", "4", "6", ",", " ", "R", "i", "c", "h",
      "t", "l", "i", "n", "i", "e", " ", "9", "5", "/", "4", "6", "/", "E",
      "G">>,
   <<"b", "g">>}

EuRowId(i) == <<"b", "g", ":">> \o Decimal(i)

EuRows == 2

EuLaw(texts) ==
  [i \in DOMAIN texts |->
     [id |-> EuRowId(i), statute_id |-> <<"b", "g">>, title |-> <<"b", "g">>,
      citation |-> <<"§", " ">> \o Decimal(i) \o <<" ", "B", "G">>,
      effective_date |-> Null, text_snippet |-> texts[i]]]

EuStores ==
  {Store(file, AllTables, "rowid", EuLaw(t), DefaultCases, DefaultPrep) :
     file \in BOOLEAN, t \in UNION {[1..n -> EuTexts] : n \in 1..EuRows}}

EuBasisLookup ==
  /\ Idle
  /\ \E oc \in Outcomes :
       \E args \in
          {With(Germany, ("documentId" :> z) @@ ("statuteId" :> y)
                         @@ ("citation" :> x) @@ ("limit" :> l)) :
             z \in {Undefined, Str(EuRowId(1)), Str(EuRowId(2)), SeedId},
             y \in {Undefined, Str(<<"B", "G">>)},
             x \in {Undefined, Str(<<"§", "2", " ", "b", "g">>)},
             l \in {Undefined, Whole(1), Whole(2)}} :
         Handle("law_get_eu_basis", args, oc)

InitEu ==
  /\ registry = BuiltinRegistry
  /\ store \in EuStores
  /\ call = NoCall
  /\ result = NoResult
  /\ invoked = <<>>
  /\ thrown = NoThrown
  /\ scripts = NoPython
  /\ env = NotSet
  /\ db = Opened(store)
  /\ api = NotDeployed
  /\ requests = <<>>

NextEu ==
  \/ EuBasisLookup
  \/ Deliver

SpecEu == InitEu /\ [][NextEu]_vars

(***************************************************************************)
(* Ingestion over corpora with and without rows, the scripts failing,      *)
(* printing nothing, or printing a report.  The corpus is the one the      *)
(* scripts would write: a run finds nothing missing and ingests nothing,   *)
(* so a call leaves the Store as it is.                                    *)
(***************************************************************************)
ScriptRuns ==
  {Rejected, Resolved(<<>>),
   Resolved(("selected_laws" :> Whole(2)) @@ ("ingested_sections" :> Whole(0))
            @@ ("skipped_sections" :> Whole(1))),
   Resolved(("selected_cases" :> Whole(0)) @@ ("skipped_count" :> Whole(2))
            @@ ("skipped_cases" :> Whole(1)))}

ScriptEnvironments == [Range(INGESTION_SOURCES) -> ScriptRuns]

IngestionStores ==
  {Store(file, tables, "rowid", LookupLaw(l), LookupCases(1),
         LookupPrep(LookupRows)) :
     file \in BOOLEAN, tables \in {AllTables, AllTables \ {"law_documents"}},
     l \in {0, 2}}

IngestionSourceIds ==
  {Undefined, Str(ALL), Str(RECHTSPRECHUNG),
   Str(<<" ", "D", "I", "P", "-", "B", "u", "n", "d", "e", "s", "t", "a",
         "g">>),
   Str(<<"x">>)}

Ingestion ==
  /\ Idle
  /\ \E oc \in Outcomes :
       \E args \in
          {With(Germany, ("sourceId" :> x) @@ ("dryRun" :> b)) :
             x \in IngestionSourceIds,
             b \in {Undefined, Bool(TRUE), Bool(FALSE)}} :
         Handle("law_run_ingestion", args, oc)

InitIngestion ==
  /\ registry = BuiltinRegistry
  /\ store \in IngestionStores
  /\ call = NoCall
  /\ result = NoResult
  /\ invoked = <<>>
  /\ thrown = NoThrown
  /\ scripts \in ScriptEnvironments
  /\ env = NotSet
  /\ db = Opened(store)
  /\ api = NotDeployed
  /\ requests = <<>>

NextIngestion ==
  \/ Ingestion
  \/ Deliver

SpecIngestion == InitIngestion /\ [][NextIngestion]_vars

(***************************************************************************)
(* Properties of the dispatcher                                            *)
(***************************************************************************)
\* a call has been handled and its envelope not yet delivered
Handled == ~Idle

\* the country argument, when it is a non-empty string
CountryGiven == ~requireString(call.arguments, "country").threw

\* the registry key the country argument is looked up under
CountryKey == ToLowerCase(call.arguments["country"].s)

\* the tools that take a country
CountryScopedTools == OwnTools \ {"law_list_countries"}

\* the static flag and the adapter operation behind each tool
ToolCapability ==
  [law_search_documents             |-> [flag |-> "documents", op |-> "searchDocuments"],
   law_get_document                 |-> [flag |-> "documents", op |-> "getDocument"],
   law_search_case_law              |-> [flag |-> "caseLaw", op |-> "searchCaseLaw"],
   law_get_preparatory_works        |-> [flag |-> "preparatoryWorks", op |-> "getPreparatoryWorks"],
   law_parse_citation               |-> [flag |-> "citations", op |-> "parseCitation"],
   law_validate_citation            |-> [flag |-> "citations", op |-> "validateCitation"],
   law_format_citation              |-> [flag |-> "formatting", op |-> "formatCitation"],
   law_check_currency               |-> [flag |-> "currency", op |-> "checkCurrency"],
   law_build_legal_stance           |-> [flag |-> "legalStance", op |-> "buildLegalStance"],
   law_get_eu_basis                 |-> [flag |-> "eu", op |-> "getEuBasis"],
   law_search_eu_implementations    |-> [flag |-> "eu", op |-> "searchEuImplementations"],
   law_get_national_implementations |-> [flag |-> "eu", op |-> "getNationalImplementations"],
   law_get_provision_eu_basis       |-> [flag |-> "eu", op |-> "getProvisionEuBasis"],
   law_validate_eu_compliance       |-> [flag |-> "eu", op |-> "validateEuCompliance"],
   law_run_ingestion                |-> [flag |-> "ingestion", op |-> "runIngestion"]]

\* C1: handleToolCall never throws or rejects; it resolves to an envelope
\* whose tool is the call's name, and which is {ok:true, data} with the
\* handler's data when the try block returned and {ok:false, error:{code,
\* message}} with the raised error's message when anything in it raised.
C1_EnvelopeAlways ==
  Handled =>
    /\ thrown = NoThrown
    /\ result.tool = call.name
    /\ \E oc \in Outcomes :
         LET run == TryBlock(registry, store, scripts, call, oc) IN
         /\ invoked = run.ops
         /\ run.threw = ~result.ok
         /\ ~run.threw => /\ result.data = run.data
                          /\ result.error = NoEnvelopeError
         /\ run.threw => /\ result.data = NoData
                         /\ result.error.code # "none"
                         /\ result.error.message = run.error.message
                         /\ result.error.message # <<>>

\* C1 witness: an adapter operation was invoked and threw a plain Error,
\* and the call still resolved to an error envelope
C1_AdapterThrewEnveloped ==
  /\ Handled
  /\ invoked # <<>>
  /\ ~result.ok
  /\ result.error.code = "internal_error"
  /\ result.tool = call.name
  /\ thrown = NoThrown

\* C2: for a tool that requires a capability and a country that resolves to
\* an adapter: if the adapter's flag is false or the tool's operation is not
\* bound, the call returns unsupported_capability and invokes nothing; and
\* whatever operation a call invokes is the tool's operation, on the
\* resolved adapter, whose flag is true and which binds the operation.
C2_StaticGating ==
  Handled =>
    /\ (call.name \in DOMAIN ToolCapability /\ CountryGiven
          /\ CountryKey \in DOMAIN registry) =>
         LET adapter    == registry[CountryKey]
             capability == ToolCapability[call.name]
         IN  (~adapter.capabilities[capability.flag]
                \/ capability.op \notin adapter.bound) =>
               /\ ~result.ok
               /\ result.error.code = "unsupported_capability"
               /\ invoked = <<>>
    /\ \A i \in DOMAIN invoked :
         /\ call.name \in DOMAIN ToolCapability
         /\ CountryGiven /\ CountryKey \in DOMAIN registry
         /\ invoked[i].op = ToolCapability[call.name].op
         /\ invoked[i].adapter = registry[CountryKey].code
         /\ registry[CountryKey].capabilities[ToolCapability[call.name].flag]
         /\ invoked[i].op \in registry[CountryKey].bound

\* C2 witness: the flag is set but the operation is not bound, and the call
\* was refused
C2_UnboundOperationRefused ==
  /\ Handled
  /\ call.name = "law_get_document"
  /\ CountryGiven /\ CountryKey \in DOMAIN registry
  /\ registry[CountryKey].capabilities["documents"]
  /\ "getDocument" \notin registry[CountryKey].bound
  /\ result.error.code = "unsupported_capability"
  /\ invoked = <<>>

\* the names of TOOL_DEFINITIONS
RecognizedTools == OwnTools \cup {"law_list_sources", "law_about"}

\* C3: a call whose name is not in the recognized tool set returns ok:false
\* with error.code = unknown_tool, and no adapter operation is invoked.
C3_UnknownToolRejected ==
  (Handled /\ call.name \notin RecognizedTools) =>
    /\ ~result.ok
    /\ result.error.code = "unknown_tool"
    /\ invoked = <<>>

\* C4: for a country-scoped tool whose country argument is a non-empty
\* string: if no adapter is registered under the lower-cased argument the
\* call returns unknown_country and invokes nothing; if one is, the call
\* does not return unknown_country, every operation it invokes is that
\* adapter's, and describe_country describes that adapter.
C4_CountryResolution ==
  (Handled /\ call.name \in CountryScopedTools /\ CountryGiven) =>
    IF CountryKey \notin DOMAIN registry
    THEN /\ ~result.ok
         /\ result.error.code = "unknown_country"
         /\ invoked = <<>>
    ELSE /\ result.error.code # "unknown_country"
         /\ \A i \in DOMAIN invoked : invoked[i].adapter = registry[CountryKey].code
         /\ call.name = "law_describe_country" =>
              /\ result.ok
              /\ result.data.country = registry[CountryKey].code

\* C4 witness: the argument and the registered code differ in letter case
\* from each other and from the registry key, and the adapter served
C4_OtherCaseServed ==
  /\ Handled
  /\ call.name = "law_parse_citation"
  /\ CountryGiven /\ CountryKey \in DOMAIN registry
  /\ call.arguments["country"].s # CountryKey
  /\ registry[CountryKey].code # CountryKey
  /\ registry[CountryKey].code # call.arguments["country"].s
  /\ invoked # <<>>
  /\ invoked[1].adapter = registry[CountryKey].code

\* the arguments each tool requires to be non-empty strings
RequiredStrings ==
  [law_describe_country             |-> {"country"},
   law_search_documents             |-> {"country", "query"},
   law_get_document                 |-> {"country", "id"},
   law_search_case_law              |-> {"country", "query"},
   law_get_preparatory_works        |-> {"country"},
   law_parse_citation               |-> {"country", "citation"},
   law_validate_citation            |-> {"country", "citation"},
   law_format_citation              |-> {"country", "citation"},
   law_check_currency               |-> {"country"},
   law_build_legal_stance           |-> {"country", "query"},
   law_get_eu_basis                 |-> {"country"},
   law_search_eu_implementations    |-> {"country", "query"},
   law_get_national_implementations |-> {"country", "euId"},
   law_get_provision_eu_basis       |-> {"country", "documentId"},
   law_validate_eu_compliance       |-> {"country", "euId"},
   law_run_ingestion                |-> {"country"}]

\* the required strings of the call that are absent, not strings, or empty
\* after trimming
Offending ==
  {key \in RequiredStrings[call.name] : requireString(call.arguments, key).threw}

\* C5: a call in which a required string argument is absent, not a string,
\* or empty after trimming returns invalid_arguments with a message naming
\* an offending argument, and invokes no adapter operation.
C5_RequiredStringRejected ==
  (Handled /\ call.name \in DOMAIN RequiredStrings /\ Offending # {}) =>
    /\ ~result.ok
    /\ result.error.code = "invalid_arguments"
    /\ \E key \in Offending : result.error.message[Len(result.error.message)] = key
    /\ invoked = <<>>

\* the selectors of which a tool needs at least one
Selectors ==
  [law_get_preparatory_works |-> {"citation", "statuteId", "query"},
   law_check_currency        |-> {"citation", "statuteId"},
   law_get_eu_basis          |-> {"citation", "statuteId", "documentId"}]

\* C6: a call to one of the selector tools in which no selector is a string
\* that is non-empty after trimming returns invalid_arguments and invokes
\* no adapter operation.
C6_SelectorRequired ==
  (/\ Handled
   /\ call.name \in DOMAIN Selectors
   /\ \A key \in Selectors[call.name] : requireString(call.arguments, key).threw) =>
    /\ ~result.ok
    /\ result.error.code = "invalid_arguments"
    /\ invoked = <<>>

(***************************************************************************)
(* Properties of the searches over the Store                               *)
(***************************************************************************)
\* the Store table each search reads
SearchTable ==
  [law_search_documents      |-> "law_documents",
   law_search_case_law       |-> "case_law_documents",
   law_get_preparatory_works |-> "preparatory_works"]

\* a search has been handled and was not rejected for its arguments
Searched ==
  /\ Handled
  /\ call.name \in DOMAIN SearchTable
  /\ result.error.code # "invalid_arguments"

\* the corpus lacks the data behind the tool of the call
DataAbsent == ~getDb(store) \/ ~tableExists(store, SearchTable[call.name])

\* every row of the Store, as the document it maps to
StoreDocuments ==
  Range(MapRows(store.law, mapStatuteRowToLawDocument))
    \cup Range(MapRows(store.cases, mapCaseLawRowToLawDocument))
    \cup Range(MapRows(store.prep, mapPreparatoryWorkRowToLawDocument))

\* C7 as stated: when the Store lacks the data underlying a search whose
\* static flag is set, the call returns ok:true and its data contains no
\* document that is not a row of the Store.
C7_AbsentDataNoSeed ==
  (Searched /\ DataAbsent) =>
    /\ result.ok
    /\ Range(result.data.documents) \subseteq StoreDocuments

\* C7 amended: when the Store lacks the table behind search_case_law or
\* get_preparatory_works, the call returns ok:true and every document in
\* its data is a row of the Store; search_documents without its table
\* returns ok:true and only documents of the in-memory seed legislation.
C7_AbsentDataOkSeedOnlyForStatutes ==
  (Searched /\ DataAbsent) =>
    /\ result.ok
    /\ result.data.kind = "search"
    /\ IF call.name = "law_search_documents"
       THEN Range(result.data.documents) \subseteq Range(GERMAN_LEGISLATION)
       ELSE Range(result.data.documents) \subseteq StoreDocuments

\* C7 witness: the corpus file is there, the runtime Capability Set lacks
\* basic_case_law, and the case-law search was invoked and answered ok
C7_CaseLawAbsentAnswered ==
  /\ Searched
  /\ call.name = "law_search_case_law"
  /\ getDb(store)
  /\ "basic_case_law" \notin getCapabilities(store)
  /\ invoked # <<>>
  /\ result.ok
  /\ result.data.documents = <<>>

\* C8: when the data behind a search is absent from the Store, the ok:true
\* response carries an upgrade notice, so that it differs from the response
\* of a search that matched nothing.
C8_UpgradeNoticeCarried ==
  (Searched /\ DataAbsent /\ result.ok) =>
    /\ result.data.kind = "upgrade_notice"
    /\ result.data # SearchData(<<>>)

\* the statute search of the call, stage by stage: what each stage's query
\* returns under the limits searchGermanLawDocuments gives it
LawQuery == call.arguments["query"].s

LawLimit == clampLimit(OrDefault(call.arguments["limit"]))

Ids(rows) == {rows[i].id : i \in DOMAIN rows}

ExactStageIds == Ids(findExactCitationRows(store, LawQuery, LawLimit))

LawRemaining == LawLimit - Cardinality(ExactStageIds)

FtsStageIds(ftsQuery) ==
  IF tableExists(store, "law_documents_fts") /\ ftsQuery.tokens # <<>>
  THEN Ids(runLawFtsQuery(store, ftsQuery, LawRemaining * 3).rows)
  ELSE {}

PrimaryStageIds == FtsStageIds(buildFtsQueryVariants(LawQuery).primary)

FallbackStageIds ==
  IF buildFtsQueryVariants(LawQuery).hasFallback
  THEN FtsStageIds(buildFtsQueryVariants(LawQuery).fallback)
  ELSE {}

LikeStageIds == Ids(runLawLikeQuery(store, LawQuery, LawRemaining * 3))

\* the first stage whose query returns the row, given what the stages
\* return
StageAmong(id, exact, primary, fallback, like) ==
  IF id \in exact THEN 1
  ELSE IF id \in primary THEN 2
  ELSE IF id \in fallback THEN 3
  ELSE IF id \in like THEN 4
  ELSE 5

\* the first stage whose query returns each row of the result
StagesOf(documents) ==
  LET exact    == ExactStageIds
      primary  == PrimaryStageIds
      fallback == FallbackStageIds
      like     == LikeStageIds
  IN  [i \in DOMAIN documents |->
         StageAmong(documents[i].id, exact, primary, fallback, like)]

StatutesSearched ==
  /\ Searched
  /\ call.name = "law_search_documents"
  /\ ~DataAbsent
  /\ result.ok

\* C9: the documents search_documents returns from the Store are unique by
\* id; each was returned by some stage; they are ordered by the first stage
\* that returned them (exact citation, full-text primary, full-text
\* fallback, substring); and when the exact-citation stage returned a row
\* the first document is such a row.
C9_StagePrecedence ==
  StatutesSearched =>
    LET documents == result.data.documents
        stage     == StagesOf(result.data.documents) IN
    /\ \A i, j \in DOMAIN documents :
         i < j => /\ documents[i].id # documents[j].id
                  /\ stage[i] <= stage[j]
    /\ \A i \in DOMAIN documents : stage[i] <= 4
    /\ ExactStageIds # {} =>
         /\ documents # <<>>
         /\ documents[1].id \in ExactStageIds

\* C9 witness: a row returned by the exact-citation stage was returned by a
\* later stage too, and a row of a later stage follows it in the result
C9_ExactThenLater ==
  /\ StatutesSearched
  /\ Len(result.data.documents) >= 2
  /\ result.data.documents[1].id \in
       ExactStageIds \cap (PrimaryStageIds \cup FallbackStageIds \cup LikeStageIds)
  /\ result.data.documents[2].id \notin ExactStageIds

\* clamp(limit, 1, 100) in units of 1/Scale, an omitted limit being 20
ClampToRange(limit) ==
  IF limit = Undefined THEN DEFAULT_LIMIT * Scale
  ELSE IF limit.t = "-Infinity" THEN MIN_LIMIT * Scale
  ELSE IF limit.t = "+Infinity" THEN MAX_LIMIT * Scale
  ELSE IF limit.n < MIN_LIMIT * Scale THEN MIN_LIMIT * Scale
  ELSE IF limit.n > MAX_LIMIT * Scale THEN MAX_LIMIT * Scale
  ELSE limit.n

\* C10: for every limit the Shell accepts, a statute, case-law or
\* preparatory-works search returns at most clamp(limit, 1, 100) documents,
\* and total is the number of documents returned.
C10_AtMostClampedLimit ==
  (Searched /\ result.ok) =>
    /\ Len(result.data.documents) * Scale <= ClampToRange(call.arguments["limit"])
    /\ result.data.total = Len(result.data.documents)

(***************************************************************************)
(* Properties of the Germany adapter's operations                          *)
(***************************************************************************)
\* the call with its limit argument replaced
CallWithLimit(limit) ==
  [call EXCEPT !.arguments = [call.arguments EXCEPT !["limit"] = limit]]

LimitOmitted == call.arguments["limit"] = Undefined

\* C11: when limit is omitted, law_build_legal_stance answers exactly as
\* it answers the same call with limit = 20, the default its tool
\* definition advertises (so at most 20 documents per category)
C11_OmittedLimitIsTwenty ==
  (call.name = "law_build_legal_stance" /\ LimitOmitted)
    => /\ result = handleToolCall(registry, store, scripts,
                     CallWithLimit(Whole(ADVERTISED_DEFAULT_LIMIT)),
                     "return").envelope
       /\ result.ok => Len(result.data.statutes) <= ADVERTISED_DEFAULT_LIMIT

\* a filter argument that is given: a court that is not blank, a date in
\* the interface's form YYYY-MM-DD
CourtGiven == call.arguments["court"].t = "string"
              /\ Trim(call.arguments["court"].s) # <<>>

DateGiven(key) == call.arguments[key].t = "string"
                  /\ IsIsoDate(Trim(call.arguments[key].s))

CaseRow(id) == CHOOSE i \in DOMAIN store.cases : store.cases[i].id = id

\* the stored decision behind a returned document satisfies the filters
SatisfiesFilters(row) ==
  /\ CourtGiven =>
       Contains(ToLowerCase(row.court),
                ToLowerCase(Trim(call.arguments["court"].s)))
  /\ DateGiven("dateFrom") =>
       /\ row.decision_date # Null
       /\ ~BinLess(row.decision_date, Trim(call.arguments["dateFrom"].s))
  /\ DateGiven("dateTo") =>
       /\ row.decision_date # Null
       /\ ~BinLess(Trim(call.arguments["dateTo"].s), row.decision_date)

CaseLawAnswered == call.name = "law_search_case_law" /\ result.ok

\* the call without its filters
CallUnfiltered ==
  [call EXCEPT !.arguments = [call.arguments EXCEPT !["court"] = Undefined,
                                !["dateFrom"] = Undefined,
                                !["dateTo"] = Undefined]]

FirstInTables(id) ==
  Limit(MapRows(RowById(store.law, id), mapStatuteRowToLawDocument)
        \o MapRows(RowById(store.cases, id), mapCaseLawRowToLawDocument)
        \o MapRows(RowById(store.prep, id), mapPreparatoryWorkRowToLawDocument),
        1)

DocumentAnswered == call.name = "law_get_document" /\ result.ok

\* C13: against an open Store, law_get_document returns the first document
\* with that id among the statute table, the case-law table and the
\* preparatory-works table, so an id that only a decision or only a
\* preparatory work has is returned as that document and null is returned
\* only when no table holds the id
C13_FirstMatchAcrossTables ==
  (DocumentAnswered /\ getDb(store)
     /\ FirstInTables(call.arguments["id"].s) # <<>>)
    => result.data.document = FirstInTables(call.arguments["id"].s)

ValidationAnswered == call.name = "law_validate_citation" /\ result.ok

CalledCitation == parseGermanCitation(call.arguments["citation"].s)

\* the Store is available to a read of the statute table
StatutesAvailable == getDb(store) /\ tableExists(store, "law_documents")

StoredCitations ==
  {store.law[i].citation : i \in DOMAIN store.law} \ {Null}

\* what validate_citation is to return when the called citation is in the
\* corpus exactly if inCorpus
ValidationIs(inCorpus) ==
  IF ~CalledCitation.matched
  THEN /\ result.data.keys = {"valid", "reason"}
       /\ ~result.data.valid
  ELSE IF StatutesAvailable /\ ~inCorpus
       THEN /\ result.data.keys = {"valid", "normalized", "reason"}
            /\ ~result.data.valid
            /\ result.data.normalized = CalledCitation.normalized
       ELSE /\ result.data.keys = {"valid", "normalized"}
            /\ result.data.valid
            /\ result.data.normalized = CalledCitation.normalized

\* C15 as stated: validate_citation returns {valid:false, reason} when the
\* citation does not parse, {valid:false, normalized, reason} when it
\* parses, the Store is available and no lookup form equals a stored
\* citation, and {valid:true, normalized} in every other case
C15_ValidationByEquality ==
  ValidationAnswered
    => ValidationIs(\E c \in StoredCitations :
                      c \in Range(CalledCitation.lookupCitations))

\* C15, amended: the same with a lookup form compared to the stored
\* citations without regard to letter case
C15_ValidationIgnoringCase ==
  ValidationAnswered
    => ValidationIs(\E c \in StoredCitations :
                      ToLowerCase(c)
                        \in Range(MapRows(CalledCitation.lookupCitations,
                                          ToLowerCase)))

\* a citation that parses is refused because the available Store does not
\* hold it
C15_NotInCorpus ==
  /\ ValidationAnswered
  /\ CalledCitation.matched
  /\ StatutesAvailable
  /\ store.law # <<>>
  /\ ~result.data.valid
  /\ "normalized" \in result.data.keys

\* law_parse_citation returned a parsed citation
CitationParsed ==
  /\ call.name = "law_parse_citation"
  /\ result.ok
  /\ result.data.kind = "citation"

\* format(citation) in the default style
FormatOf(citation) ==
  germany_formatCitation(("citation" :> Str(citation))
                         @@ ("style" :> Undefined)).formatted

\* C16: for a citation that parses, formatting its normalized form and
\* parsing the result gives the normalized string and the parsed record
\* that parsing the citation gave, and parsing the normalized form gives
\* the normalized form back
C16_NormalizationIdempotent ==
  CitationParsed
    => /\ germany_parseCitation(FormatOf(result.data.normalized)).kind
            = "citation"
       /\ germany_parseCitation(FormatOf(result.data.normalized)).normalized
            = result.data.normalized
       /\ germany_parseCitation(FormatOf(result.data.normalized)).parsed
            = result.data.parsed
       /\ germany_parseCitation(result.data.normalized).normalized
            = result.data.normalized

\* a citation with a sentence and a letter, written otherwise than its
\* normalized form, was parsed
C16_RewrittenCitationParsed ==
  /\ CitationParsed
  /\ result.data.normalized # call.arguments["citation"].s
  /\ result.data.parsed.sentence # <<>>
  /\ result.data.parsed.letter # <<>>

\* the section is one section number: digits and at most one letter
OneSection(section) == Len(section) + 1 \in Range(ItemEnds(section, 1))

ParagraphParsed == CitationParsed /\ result.data.parsed.type = "paragraph"

\* C17: the normalized form of a paragraph citation has the marker §§
\* exactly if its section is a range or a list (more than one section
\* number, joined by a comma, a hyphen or "bis"), and the marker §
\* otherwise, whichever marker the input had
C17_DoubledMarkerIffRangeOrList ==
  ParagraphParsed
    => /\ result.data.parsed.marker
            = (IF OneSection(result.data.parsed.section)
               THEN <<"§">> ELSE <<"§", "§">>)
       /\ IsPrefix(result.data.parsed.marker \o <<" ">>,
                   result.data.normalized)

CurrencyAnswered == call.name = "law_check_currency" /\ result.ok

\* the documents gathered for the selectors of the call
Gathered ==
  collectCurrencyDocuments(store, TrimmedOrNull(call.arguments["statuteId"]),
                           TrimmedOrNull(call.arguments["citation"])).documents

\* the newest effective date among the gathered documents
SourceDate ==
  newestDate([i \in DOMAIN Gathered |-> Gathered[i].effectiveDate])

\* asOfDate is given, as a date YYYY-MM-DD, and is earlier than sourceDate
AsOfEarlier ==
  /\ normalizeIsoDate(call.arguments["asOfDate"]) # Null
  /\ SourceDate # Null
  /\ BinLess(normalizeIsoDate(call.arguments["asOfDate"]), SourceDate)

\* C18: check_currency answers unknown if the Store is unavailable and no
\* documents were gathered, otherwise not_found if no document matches,
\* otherwise unknown if asOfDate is given and earlier than sourceDate,
\* otherwise likely_in_force with evidence.matches the number of matched
\* documents
C18_StatusInOrder ==
  CurrencyAnswered
    => /\ result.data.status
            = (IF ~StatutesAvailable /\ Gathered = <<>> THEN "unknown"
               ELSE IF Gathered = <<>> THEN "not_found"
               ELSE IF AsOfEarlier THEN "unknown"
               ELSE "likely_in_force")
       /\ result.data.status = "likely_in_force"
            => result.data.matches = Len(Gathered)

EuBasisAnswered == call.name = "law_get_eu_basis" /\ result.ok

EuLimit ==
  de_clampLimit(OrLimit(call.arguments["limit"], EU_DEFAULT_LIMIT),
                MIN_LIMIT, EU_MAX_LIMIT)

\* what collectEuBasisDocuments gathered for the call
EuCollection ==
  collectEuBasisDocuments(store, TrimmedOrNull(call.arguments["documentId"]),
                          TrimmedOrNull(call.arguments["statuteId"]),
                          TrimmedOrNull(call.arguments["citation"]),
                          EuLimit * 8)

\* the source documents of the call
EuGathered == EuCollection.documents

\* every match of every pattern in the text of a document
DetectedIn(document) ==
  AllDetected(collapseWhitespace(buildDocumentEuSearchText(document)))

ReferencesOf(document) ==
  SelectSeq(result.data.references, LAMBDA r : r.sourceId = document.id)

\* the references of a document are one for each detected pair of an
\* identifier and a type, with the greatest confidence detected for it
OnePerPair(references, detected) ==
  /\ \A k \in DOMAIN detected :
       \E r \in DOMAIN references : SameKey(references[r], detected[k])
  /\ \A r1, r2 \in DOMAIN references :
       SameKey(references[r1], references[r2]) => r1 = r2
  /\ \A r \in DOMAIN references :
       /\ \E k \in DOMAIN detected :
            /\ SameKey(references[r], detected[k])
            /\ references[r].confidence = detected[k].confidence
       /\ \A k \in DOMAIN detected :
            SameKey(references[r], detected[k])
              => detected[k].confidence <= references[r].confidence

\* C19: when no reference is cut off by the limit, the references returned
\* for each source document are exactly one for each distinct pair of
\* normalized EU identifier and EU type detected in its text, the one of
\* the highest confidence: no pair twice, no detected pair dropped
C19_OneReferencePerPair ==
  (EuBasisAnswered /\ Len(result.data.references) = result.data.total)
    => \A i \in DOMAIN EuGathered :
         OnePerPair(ReferencesOf(EuGathered[i]), DetectedIn(EuGathered[i]))

IsSeed(document) ==
  \E i \in DOMAIN GERMAN_LEGISLATION : GERMAN_LEGISLATION[i].id = document.id

\* C14: an operation uses seed documents only when the Store reported
\* unavailable for a read of the call: when no read of an EU basis call
\* reported unavailable, no seed document is among its source documents
C14_SeedOnlyWhenUnavailable ==
  (EuBasisAnswered /\ ~EuCollection.dbUnavailable)
    => \A i \in DOMAIN EuGathered : ~IsSeed(EuGathered[i])

IngestionAnswered == call.name = "law_run_ingestion" /\ invoked # <<>>

\* the sources whose scripts the call runs
SourcesRun == SourcesOf(normalizeSourceId(call.arguments["sourceId"]))

\* the sub-process fails: it is rejected, or what it prints is no report
SubProcessFails(run) == run.failed \/ run = Resolved(<<>>)

\* C20: when every ingestion sub-process of a call fails, the call returns
\* ok:true and a zeroed report, ingestedCount = 0 and skippedCount = 0,
\* with dryRun and without
C20_FailureZeroed ==
  (IngestionAnswered
   /\ \A i \in DOMAIN SourcesRun : SubProcessFails(scripts[SourcesRun[i]]))
    => /\ result.ok
       /\ result.data.ingestedCount = Whole(0)
       /\ result.data.skippedCount = Whole(0)
(***************************************************************************)
(* C21, C22: registration under a code that is already held                *)
(***************************************************************************)
\* the registry holds the lower-cased code of the adapter
Held(adapter) == ToLowerCase(adapter.code) \in DOMAIN registry

\* the adapter that holds it
Holder(adapter) == registry[ToLowerCase(adapter.code)]

\* the step is register(adapter), called on the shell's registry
RegisterOf(adapter) ==
  /\ Idle
  /\ Registers(register(registry, adapter), adapter)
  /\ UNCHANGED <<store, call, result, invoked, scripts, env, db, api, requests>>

\* C21: registering an adapter whose lower-cased code is held by a different
\* adapter throws duplicate_country and leaves the registry as it was: get of
\* the code still returns the adapter registered first, and list the same
\* adapters.
C21_DuplicateRejected ==
  [][\A adapter \in AdapterPool :
       (RegisterOf(adapter) /\ Held(adapter) /\ Holder(adapter) # adapter) =>
         /\ thrown'.by = "register"
         /\ thrown'.error.code = "duplicate_country"
         /\ registry' = registry
         /\ get(registry', adapter.code) = Return(Holder(adapter))
         /\ list(registry') = list(registry)]_vars

\* a registration was refused because a different adapter holds the code
C21_OtherAdapterRefused ==
  /\ thrown.by = "register"
  /\ thrown.error.code = "duplicate_country"
  /\ registry[ToLowerCase(thrown.adapter.code)] # thrown.adapter
  /\ Cardinality(DOMAIN registry) > 1

\* C22: registering the adapter that already holds its code succeeds and
\* leaves the registry as it was.
C22_SameInstanceIdempotent ==
  [][\A adapter \in AdapterPool :
       (RegisterOf(adapter) /\ Held(adapter) /\ Holder(adapter) = adapter) =>
         /\ thrown' = NoThrown
         /\ registry' = registry]_vars

(***************************************************************************)
(* C23, C24: advertised tools and the order of the dispatcher's checks     *)
(***************************************************************************)
\* the names of TOOL_DEFINITIONS that are no key of this.handlers
AdvertisedOnly == RecognizedTools \ OwnTools

\* C23: a call to an advertised tool is dispatched: law_list_sources with a
\* registered country and law_about with no arguments return ok:true.
C23_AdvertisedDispatchable ==
  /\ (Handled /\ call.name = "law_list_sources" /\ CountryGiven
        /\ CountryKey \in DOMAIN registry) => result.ok
  /\ (Handled /\ call.name = "law_about" /\ call.arguments = Args(<<>>)) =>
       result.ok

\* C24: a country-scoped call whose country is a non-empty string and in
\* which another required string is invalid returns invalid_arguments,
\* whether or not the country is registered or the capability supported.
C24_ValidationBeforeResolution ==
  (Handled /\ call.name \in DOMAIN RequiredStrings /\ CountryGiven
     /\ Offending # {}) =>
    /\ ~result.ok
    /\ result.error.code = "invalid_arguments"

(***************************************************************************)
(* The handle and caches of german-law-db while the configured path        *)
(* changes and the cache is reset: store is the file at the resolved path  *)
(***************************************************************************)
\* a database file with its tables and the rows of db_metadata
DatabaseFile(tables, metadata) ==
  [metadata |-> metadata]
    @@ Store(TRUE, tables, "rowid", DefaultLaw, DefaultCases, DefaultPrep)

\* a path at which there is no file
NoFile ==
  [metadata |-> <<>>] @@ Store(FALSE, {}, "rowid", <<>>, <<>>, <<>>)

\* the free-tier database of the release
FreeDatabase ==
  DatabaseFile(AllTables \cup {"db_metadata"},
               [tier |-> "free", schema_version |-> "2",
                built_at |-> "2026-01-01", builder |-> "ci"])

\* the files on disk, by path
Disk ==
  (DEFAULT_DB_PATH :> FreeDatabase)
  @@ ("full.db" :>
     DatabaseFile(AllTables \cup {"db_metadata", "case_law_documents_full",
                                  "preparatory_works_full"},
                  [tier |-> "professional"]))
  @@ ("old.db" :> DatabaseFile({"law_documents"}, <<>>))
  @@ ("odd.db" :> DatabaseFile({"db_metadata"}, [tier |-> "gold"]))
  @@ ("bare.db" :> DatabaseFile({}, <<>>))
  @@ ("case.db" :>
     DatabaseFile({"case_law_documents", "db_metadata"},
                  [tier |-> "free", builder |-> "dev"]))
  @@ ("gone.db" :> NoFile)

\* the values GERMAN_LAW_DB_PATH takes
EnvValues == {NotSet} \cup (DOMAIN Disk \ {DEFAULT_DB_PATH})

FileAt(e) == Disk[resolveGermanLawDatabasePath(e)]

\* process.env.GERMAN_LAW_DB_PATH is assigned or deleted
SetPath ==
  /\ \E e \in EnvValues \ {env} :
       /\ env' = e
       /\ store' = FileAt(e)
  /\ UNCHANGED <<registry, call, result, invoked, thrown, scripts, db, api,
                 requests>>

ResetCache ==
  /\ db' = resetGermanLawDatabaseCache(db)
  /\ UNCHANGED <<registry, store, call, result, invoked, thrown, scripts,
                 env, api, requests>>

\* getCapabilities()
CapabilitiesRead ==
  /\ db' = GetCapabilities(db, env, store).db
  /\ UNCHANGED <<registry, store, call, result, invoked, thrown, scripts,
                 env, api, requests>>

\* getMetadata()
MetadataRead ==
  /\ db' = GetMetadata(db, env, store).db
  /\ UNCHANGED <<registry, store, call, result, invoked, thrown, scripts,
                 env, api, requests>>

\* a read of the corpus, as getGermanLawDocumentCount(): it calls getDb()
CorpusRead ==
  /\ db' = GetDb(db, env, store).db
  /\ UNCHANGED <<registry, store, call, result, invoked, thrown, scripts,
                 env, api, requests>>

InitCache ==
  /\ registry = BuiltinRegistry
  /\ store = FileAt(NotSet)
  /\ call = NoCall
  /\ result = NoResult
  /\ invoked = <<>>
  /\ thrown = NoThrown
  /\ scripts = NoPython
  /\ env = NotSet
  /\ db = NotOpened
  /\ api = NotDeployed
  /\ requests = <<>>

NextCache ==
  \/ SetPath
  \/ ResetCache
  \/ CapabilitiesRead
  \/ MetadataRead
  \/ CorpusRead

SpecCache == InitCache /\ [][NextCache]_vars

\* what getCapabilities() and getMetadata() return in a state
CapabilitiesNow == GetCapabilities(db, env, store).value
MetadataNow     == GetMetadata(db, env, store).value

\* C25: once the Capability Set and the metadata have been computed, no
\* step changes what getCapabilities() and getMetadata() return, whatever
\* is read and whatever the configured path becomes.
C25_ComputedOnce ==
  [][(~db.dbCapabilities.isNull /\ ~db.dbMetadata.isNull) =>
       /\ CapabilitiesNow' = CapabilitiesNow
       /\ MetadataNow' = MetadataNow]_vars

\* the Capability Set and metadata of the database at the configured path
CapabilitiesAtPath == IF store.file THEN detectCapabilities(store) ELSE {}
MetadataAtPath == IF store.file THEN readDbMetadata(store) ELSE DefaultMetadata

\* C26: after resetGermanLawDatabaseCache() the next getCapabilities() and
\* getMetadata() answer from the database at the then-current path: the
\* Capability Set is that database's, and empty when there is no file.
C26_ResetReinitialises ==
  [][ResetCache =>
       /\ CapabilitiesNow' = CapabilitiesAtPath'
       /\ MetadataNow' = MetadataAtPath']_vars

(***************************************************************************)
(* api/mcp: requests reaching the serverless handler on a cold start.  A   *)
(* request is followed through ensureDatabase and downloadDatabase, one    *)
(* step from each await to the next; the tool call that follows is         *)
(* handleToolCall.  The redirects of the download are further awaits of    *)
(* the same kind and are not told apart.                                   *)
(***************************************************************************)
MaxRequests == 3

TMP_DB == "/tmp/database.db"

BareDatabase == DatabaseFile({}, <<>>)

\* where a request is: awaiting httpsGet, awaiting the pipeline, past
\* ensureDatabase, or answered with the error ensureDatabase threw
Request(pc) == [pc |-> pc]

Downloading == {r \in DOMAIN requests : requests[r].pc \in {"httpsGet", "pipeline"}}

\* the files that TMP_DB can be: the release, or what is left when the
\* file was written by several streams or renamed while being written
TmpDbFiles(damaged) ==
  IF damaged THEN {FreeDatabase, BareDatabase} ELSE {FreeDatabase}

\* process.env.GERMAN_LAW_DB_PATH = TMP_DB; dbReady = true
PointAtTmpDb(a) ==
  /\ env' = TMP_DB
  /\ store' \in TmpDbFiles(a.damaged)
  /\ api' = [a EXCEPT !.dbReady = TRUE]

\* ensureDatabase is called and runs to its first await, or returns
EnsureDatabase ==
  /\ Len(requests) < MaxRequests
  /\ IF api.dbReady
     THEN /\ requests' = Append(requests, Request("ready"))
          /\ UNCHANGED <<api, env, store>>
     ELSE IF api.tmpDb
     THEN /\ requests' = Append(requests, Request("ready"))
          /\ PointAtTmpDb(api)
     ELSE IF env # NotSet /\ store.file
     THEN /\ requests' = Append(requests, Request("ready"))
          /\ api' = [api EXCEPT !.dbReady = TRUE]
          /\ UNCHANGED <<env, store>>
     ELSE /\ requests' = Append(requests, Request("httpsGet"))
          /\ UNCHANGED <<api, env, store>>
  /\ UNCHANGED <<registry, call, result, invoked, thrown, scripts, db>>

\* createWriteStream(TMP_DB_TMP): the file is created, or truncated under
\* the streams that are writing it
Opening(a, r) ==
  [a EXCEPT !.tmpFile = TRUE,
            !.writers = @ \cup {r},
            !.mixed = a.tmpFile /\ a.writers # {}]

\* renameSync(TMP_DB_TMP, TMP_DB) by request r: the streams still open on
\* the file go on writing it under its new name
Renaming(a, r) ==
  [a EXCEPT !.tmpFile = FALSE,
            !.tmpDb = TRUE,
            !.writers = {},
            !.renamed = (@ \ {r}) \cup (a.writers \ {r}),
            !.damaged = a.mixed \/ a.writers # {r},
            !.mixed = FALSE,
            !.renames = @ + 1]

\* the stream of r is closed
Closing(a, r) == [a EXCEPT !.writers = @ \ {r}, !.renamed = @ \ {r}]

\* downloadDatabase after httpsGet: a status other than 200 throws, else a
\* write stream is opened on TMP_DB_TMP and the pipeline awaited
Responded ==
  /\ \E r \in DOMAIN requests :
       /\ requests[r].pc = "httpsGet"
       /\ \E ok \in BOOLEAN :
            IF ok
            THEN /\ requests' = [requests EXCEPT ![r] = Request("pipeline")]
                 /\ api' = Opening(api, r)
            ELSE /\ requests' = [requests EXCEPT ![r] = Request("failed")]
                 /\ api' = api
  /\ UNCHANGED <<registry, store, call, result, invoked, thrown, scripts, env,
                 db>>

\* downloadDatabase after the pipeline, and the rest of ensureDatabase:
\* renameSync throws when there is no TMP_DB_TMP, as after the rename made
\* by another request
Piped ==
  /\ \E r \in DOMAIN requests :
       /\ requests[r].pc = "pipeline"
       /\ \E ok \in BOOLEAN :
            IF ok /\ api.tmpFile
            THEN /\ requests' = [requests EXCEPT ![r] = Request("ready")]
                 /\ PointAtTmpDb(Renaming(api, r))
            ELSE /\ requests' = [requests EXCEPT ![r] = Request("failed")]
                 /\ api' = Closing(api, r)
                 /\ UNCHANGED <<env, store>>
  /\ UNCHANGED <<registry, call, result, invoked, thrown, scripts, db>>

InitColdStart ==
  /\ registry = BuiltinRegistry
  /\ env \in {NotSet, "case.db", "gone.db"}
  /\ store = FileAt(env)
  /\ call = NoCall
  /\ result = NoResult
  /\ invoked = <<>>
  /\ thrown = NoThrown
  /\ scripts = NoPython
  /\ db = NotOpened
  /\ api = NotDeployed
  /\ requests = <<>>

NextColdStart ==
  \/ EnsureDatabase
  \/ Responded
  \/ Piped

SpecColdStart == InitColdStart /\ [][NextColdStart]_vars

\* C28: at most one request is downloading at any time, so TMP_DB_TMP has
\* at most one writer and is renamed to TMP_DB at most once.
C28_OneDownload ==
  /\ Cardinality(Downloading) <= 1
  /\ Cardinality(api.writers) <= 1
  /\ api.renames <= 1

(***************************************************************************)
(* C29: the tools map of describe_country against the dispatcher's gating  *)
(***************************************************************************)
\* C29: for a call to a gated tool with a registered country and valid
\* required strings, the tool is true in the tools map of the country's
\* adapter exactly when the call does not return unsupported_capability.
C29_ToolsMapAgreesWithGating ==
  (Handled /\ call.name \in DOMAIN ToolCapability /\ Offending = {}
     /\ CountryKey \in DOMAIN registry) =>
    (call.name \in countryToolSupport(registry[CountryKey])
       <=> result.error.code # "unsupported_capability")

(***************************************************************************)
(* The statute search over corpora large enough for a stage's bounded      *)
(* fetch to be used up by rows an earlier stage has found                  *)
(***************************************************************************)
CompleteRows == 4

CompleteStores ==
  {Store(TRUE, m.tables, m.bm25, LawTable(t), DefaultCases, DefaultPrep) :
     m \in IndexModes("law_documents_fts"),
     t \in UNION {[1..n -> LawContents] : n \in 0..CompleteRows}}

CompleteSearch ==
  /\ Idle
  /\ \E oc \in {"return"} :
       \E args \in
          {With(Germany, ("query" :> q) @@ ("limit" :> l)) :
                       q \in {Str(<<"§", " ", "1", " ", "b", "g">>),
                              Str(<<"§", "1", " ", "b", "g">>), Str(<<"b", "g">>)},
                       l \in {Whole(2), Whole(3), Whole(4)}} :
         Handle("law_search_documents", args, oc)

InitComplete ==
  /\ registry = BuiltinRegistry
  /\ store \in CompleteStores
  /\ call = NoCall
  /\ result = NoResult
  /\ invoked = <<>>
  /\ thrown = NoThrown
  /\ scripts = NoPython
  /\ env = NotSet
  /\ db = Opened(store)
  /\ api = NotDeployed
  /\ requests = <<>>

NextComplete ==
  \/ CompleteSearch
  \/ Deliver

SpecComplete == InitComplete /\ [][NextComplete]_vars

\* the rows that match a stage's query, however many
AllRows == Len(store.law)

MatchingFts(ftsQuery) ==
  IF tableExists(store, "law_documents_fts") /\ ftsQuery.tokens # <<>>
  THEN Ids(runLawFtsQuery(store, ftsQuery, AllRows).rows)
  ELSE {}

MatchingIds ==
  Ids(findExactCitationRows(store, LawQuery, AllRows))
    \cup MatchingFts(buildFtsQueryVariants(LawQuery).primary)
    \cup (IF buildFtsQueryVariants(LawQuery).hasFallback
          THEN MatchingFts(buildFtsQueryVariants(LawQuery).fallback) ELSE {})
    \cup Ids(runLawLikeQuery(store, LawQuery, AllRows))

\* C30: when search_documents returns fewer documents than its clamped
\* limit, every row of the Store that matches the exact-citation stage, a
\* full-text stage or the substring stage of the query is in the result.
C30_CompleteUpToLimit ==
  (StatutesSearched
     /\ Len(result.data.documents) * Scale < ClampToRange(call.arguments["limit"])) =>
    MatchingIds \subseteq Ids(result.data.documents)


(***************************************************************************)
(* Concurrent invocations of handleToolCall.  An invocation runs until it  *)
(* awaits: handleToolCall awaits the handler (shell.ts), and the Germany   *)
(* adapter's buildLegalStance awaits its three searches one after the      *)
(* other (adapters/de.ts).  Each search runs synchronously when it is      *)
(* called, reading the corpus through getDb(), and the invocation is       *)
(* suspended until the awaited promise is resumed; any other invocation    *)
(* may begin or be resumed in between.  The variable requests holds the    *)
(* invocations in flight: the call, the await it is suspended at, the      *)
(* constants buildLegalStance holds across its awaits, what the handler    *)
(* returned or threw, and the envelope once the promise has settled.       *)
(***************************************************************************)
MaxInFlight == 2

\* the invocation's frame when handleToolCall is entered
Entered(c) ==
  [call |-> c, pc |-> "handler", limit |-> 0, statutes |-> <<>>,
   caseLaw |-> <<>>, preparatoryWorks |-> <<>>, run |-> Returned(NoData, <<>>),
   envelope |-> NoResult, overtaken |-> FALSE]

\* the request buildLegalStance receives from the handler
StanceRequest(c) ==
  Pick(c.arguments, {"query", "limit", "includeCaseLaw",
                     "includePreparatoryWorks"})

\* the handler reaches the Germany adapter's buildLegalStance
ReachesStance(reg, st, py, c, oc) ==
  /\ c.name = "law_build_legal_stance"
  /\ ~TryBlock(reg, st, py, c, oc).threw
  /\ requireLegalStanceAdapter(reg, c.arguments).value.impl = "germany"

\* results kept in variables of the module: those of the invocation that
\* entered last
Locals_module(frames, i) ==
  [statutes |-> frames[Len(frames)].statutes,
   caseLaw |-> frames[Len(frames)].caseLaw,
   preparatoryWorks |-> frames[Len(frames)].preparatoryWorks]

\* statutesResult, caseLawResult and preparatoryResult of an invocation of
\* buildLegalStance: constants of that invocation
Locals(frames, i) ==
  [statutes |-> frames[i].statutes, caseLaw |-> frames[i].caseLaw,
   preparatoryWorks |-> frames[i].preparatoryWorks]

\* return { query, statutes, caseLaw, preparatoryWorks, keyCitations }: the
\* promise of the adapter resolves and the handler's with it
StanceReturned(f, locals) ==
  [f EXCEPT !.pc = "handler",
            !.run = Returned(StanceData(f.call.arguments["query"].s,
                                        locals.statutes, locals.caseLaw,
                                        locals.preparatoryWorks, f.limit),
                             <<[adapter |-> germanyAdapter.code,
                                op |-> "buildLegalStance"]>>)]

\* includePreparatoryWorks ? await this.getPreparatoryWorks(...) : undefined
ToPreparatoryWorks(st, f, locals) ==
  IF OrTrue(StanceRequest(f.call)["includePreparatoryWorks"])
  THEN [f EXCEPT !.pc = "preparatoryWorks",
                 !.preparatoryWorks =
                    germany_getPreparatoryWorks(
                      st, SubRequest(StanceRequest(f.call), f.limit)).documents]
  ELSE StanceReturned(f, locals)

\* includeCaseLaw ? await this.searchCaseLaw(...) : undefined
ToCaseLaw(st, f, locals) ==
  IF OrTrue(StanceRequest(f.call)["includeCaseLaw"])
  THEN [f EXCEPT !.pc = "caseLaw",
                 !.caseLaw =
                    germany_searchCaseLaw(
                      st, SubRequest(StanceRequest(f.call), f.limit)).documents]
  ELSE ToPreparatoryWorks(st, f, locals)

\* const limit = clampLimit(request.limit ?? 10, 1, 100);
\* const statutesResult = await this.searchDocuments(...)
ToStatutes(st, f) ==
  LET limit == de_clampLimit(OrLimit(StanceRequest(f.call)["limit"],
                                     STANCE_DEFAULT_LIMIT),
                             MIN_LIMIT, STANCE_MAX_LIMIT)
  IN  [f EXCEPT !.pc = "statutes", !.limit = limit,
                !.statutes =
                   germany_searchDocuments(
                     st, SubRequest(StanceRequest(f.call), limit)).documents]

\* handleToolCall(call) up to its first await
Enter(reg, st, py, c, oc) ==
  IF ReachesStance(reg, st, py, c, oc) THEN ToStatutes(st, Entered(c))
  ELSE [Entered(c) EXCEPT !.run = TryBlock(reg, st, py, c, oc)]

\* the invocation continues after the await it is suspended at, up to the
\* next one
Continue(st, frames, i) ==
  LET f == frames[i]
  IN  CASE f.pc = "statutes"         -> ToCaseLaw(st, f, Locals(frames, i))
        [] f.pc = "caseLaw"          -> ToPreparatoryWorks(st, f, Locals(frames, i))
        [] f.pc = "preparatoryWorks" -> StanceReturned(f, Locals(frames, i))
        [] f.pc = "handler"          ->
             [f EXCEPT !.pc = "settled",
                       !.envelope = Settled(f.call, f.run).envelope]

\* the invocation called getDb(): its searches read the corpus
OpensDb(f) == f.pc \in {"statutes", "caseLaw", "preparatoryWorks"}

\* the other suspended invocations have been overtaken by invocation i
Overtaking(frames, i) ==
  [j \in DOMAIN frames |->
     IF j # i /\ frames[j].pc # "settled"
     THEN [frames[j] EXCEPT !.overtaken = TRUE] ELSE frames[j]]

Without(frames, i) ==
  [j \in 1..(Len(frames) - 1) |-> IF j < i THEN frames[j] ELSE frames[j + 1]]

ConcurrentCalls ==
  Calls("law_build_legal_stance",
        {With(Germany, ("query" :> Str(<<"b", "g">>))),
         With(Germany, ("query" :> Str(<<"d", "a">>))
                       @@ ("includeCaseLaw" :> Bool(FALSE))
                       @@ ("includePreparatoryWorks" :> Bool(FALSE))),
         With(Germany, <<>>)})
  \cup Calls("law_search_documents",
             {With(Germany, ("query" :> Str(<<"b", "g">>)))})

\* a corpus in which the two queries find different statutes
ConcurrentStore ==
  Store(TRUE, AllTables, "rowid",
        LawTable(<<CHOOSE c \in LawContents : c.title = <<"d", "a">>,
                   CHOOSE c \in LawContents : c.title = <<"b", "g">> >>),
        DefaultCases, DefaultPrep)

\* a client calls handleToolCall while other invocations are suspended
Begin ==
  /\ Len(requests) < MaxInFlight
  /\ \E c \in ConcurrentCalls :
       LET f == Enter(registry, store, scripts, c, "return")
       IN  /\ requests' = Append(Overtaking(requests, 0), f)
           /\ db' = IF OpensDb(f) THEN GetDb(db, env, store).db ELSE db
  /\ UNCHANGED <<registry, store, call, result, invoked, thrown, scripts,
                 env, api>>

\* the event loop resumes a suspended invocation
Resume ==
  \E i \in DOMAIN requests :
    /\ requests[i].pc # "settled"
    /\ LET f == Continue(store, requests, i)
       IN  /\ requests' = [Overtaking(requests, i) EXCEPT ![i] = f]
           /\ db' = IF OpensDb(f) /\ f.pc # requests[i].pc
                    THEN GetDb(db, env, store).db ELSE db
    /\ UNCHANGED <<registry, store, call, result, invoked, thrown, scripts,
                   env, api>>

\* the caller of a settled invocation receives the envelope
Respond ==
  \E i \in DOMAIN requests :
    /\ requests[i].pc = "settled"
    /\ Settles(requests[i].call,
               [envelope |-> requests[i].envelope, rejection |-> NoError,
                ops |-> requests[i].run.ops])
    /\ requests' = Without(requests, i)
    /\ UNCHANGED <<registry, store, scripts, env, db, api>>

InitConcurrent ==
  /\ registry = BuiltinRegistry
  /\ store = ConcurrentStore
  /\ call = NoCall
  /\ result = NoResult
  /\ invoked = <<>>
  /\ thrown = NoThrown
  /\ scripts = NoPython
  /\ env = NotSet
  /\ db = NotOpened
  /\ api = NotDeployed
  /\ requests = <<>>

NextConcurrent ==
  \/ Begin
  \/ Resume
  \/ Respond

SpecConcurrent == InitConcurrent /\ [][NextConcurrent]_vars

\* the envelope of the call had it run alone against the corpus
Alone(c) == handleToolCall(registry, store, scripts, c, "return").envelope

\* C27: under any interleaving of concurrent invocations at their awaits,
\* every invocation settles to, and its caller receives, exactly the
\* envelope the call returns when it runs alone against the same corpus
C27_NoInterference ==
  /\ \A i \in DOMAIN requests :
       requests[i].pc = "settled" => requests[i].envelope = Alone(requests[i].call)
  /\ ~Idle => result = Alone(call)

\* a legal stance with statutes has settled after it was overtaken, while
\* another legal stance with other statutes is suspended between its searches
C27_OvertakenStanceSettled ==
  \E i, j \in DOMAIN requests :
    /\ requests[i].pc = "settled"
    /\ requests[i].overtaken
    /\ requests[i].envelope.ok
    /\ requests[i].call.name = "law_build_legal_stance"
    /\ requests[i].envelope.data.statutes # <<>>
    /\ requests[j].pc \in {"statutes", "caseLaw", "preparatoryWorks"}
    /\ requests[j].statutes # requests[i].envelope.data.statutes

====
